---- MODULE Spec2Model ----
(***************************************************************************)
(* Client-side orchestration of background_remover (src/app.js): the       *)
(* streamed batch run (startBatchProcessing, stop/continue, the SSE line   *)
(* framer, updateProgress, addRecentFolder) and the single-image pipeline  *)
(* (handleFileSelect, processImage).                                       *)
(***************************************************************************)
EXTENDS Naturals, Integers, Sequences, FiniteSets, TLC

----------------------------------------------------------------------------
(* Bounds of the model *)

\* number of clicks on the start control during one behaviour
MaxStarts == 2
\* number of newline-terminated lines in a response body of SpecStream
MaxLines == 2
\* in Spec and SpecStart the network cuts the body every CutStride bytes
CutStride == 8
\* number of clicks on the controls of the single-image page during one
\* behaviour of SpecImage
MaxClicks == 3
\* the same during one behaviour of SpecLoaded
LoadedClicks == 2
\* number of calls of the remote storage client's methods during one
\* behaviour
MaxCalls == 3
\* number of calls of addRecentFolder and of clicks on the refresh control
\* during one behaviour of SpecRecent
MaxAdds == 3
\* number of calls of checkAuth and of authorizations during one behaviour
\* of SpecAuth
MaxAuths == 3

----------------------------------------------------------------------------
(* Bytes and text of the batch response body *)

NL == "\n"
\* the two bytes of one non-ASCII UTF-8 character, and the character
LeadByte == "C3"
ContByte == "BC"
WideChar == "u-umlaut"
\* U+FFFD, what TextDecoder emits for a malformed byte sequence
Replacement == "U+FFFD"

DataPrefix == <<"d", "a", "t", "a", ":", " ">>

\* decoder.decode(value, {stream: true}): bytes to characters; an incomplete
\* trailing multi-byte character stays pending inside the decoder
RECURSIVE Utf8Step(_, _, _)
Utf8Step(pending, bytes, out) ==
    IF bytes = <<>> THEN [chars |-> out, pending |-> pending]
    ELSE LET b == Head(bytes) IN
         IF pending # <<>>
         THEN IF b = ContByte
              THEN Utf8Step(<<>>, Tail(bytes), Append(out, WideChar))
              ELSE Utf8Step(<<>>, bytes, Append(out, Replacement))
         ELSE IF b = LeadByte THEN Utf8Step(<<b>>, Tail(bytes), out)
         ELSE IF b = ContByte
              THEN Utf8Step(<<>>, Tail(bytes), Append(out, Replacement))
         ELSE Utf8Step(<<>>, Tail(bytes), Append(out, b))

\* decode without {stream: true}: nothing is kept between calls
DecodeNoStream(pending, bytes) ==
    LET r == Utf8Step(<<>>, bytes, <<>>) IN
    [chars |-> IF r.pending = <<>> THEN r.chars ELSE Append(r.chars, Replacement),
     pending |-> <<>>]

\* decoder.decode(value, {stream: true})
DecodeStream(pending, bytes) == Utf8Step(pending, bytes, <<>>)

\* String.prototype.split('\n'): always at least one segment
RECURSIVE SplitAcc(_, _, _)
SplitAcc(text, cur, acc) ==
    IF text = <<>> THEN Append(acc, cur)
    ELSE IF Head(text) = NL THEN SplitAcc(Tail(text), <<>>, Append(acc, cur))
    ELSE SplitAcc(Tail(text), Append(cur, Head(text)), acc)

Split(text) == SplitAcc(text, <<>>, <<>>)

Front(s) == SubSeq(s, 1, Len(s) - 1)
Last(s) == s[Len(s)]

\* line.startsWith('data: ')
StartsWithData(line) ==
    /\ Len(line) >= Len(DataPrefix)
    /\ SubSeq(line, 1, Len(DataPrefix)) = DataPrefix

----------------------------------------------------------------------------
(* ProgressEvents: the JSON texts the model's streams carry.  Each JSON     *)
(* text is one character of the payload alphabet; any other payload is not *)
(* valid JSON.                                                             *)

FolderA == [folder_name |-> "A", folder_path |-> "/A", files_processed |-> 1]
FolderA2 == [folder_name |-> "A", folder_path |-> "/A", files_processed |-> 2]
FolderB == [folder_name |-> "B", folder_path |-> "", files_processed |-> 1]

\* a record with every counter absent (absent and 0 are both falsy in the code)
NoCounters ==
    [type |-> "", file_index |-> 0, total_files |-> 0, folder_index |-> 0,
     total_folders |-> 0, folders_processed |-> 0, results |-> <<>>]

JsonTexts ==
    ( <<"s">> :> [NoCounters EXCEPT !.type = "start", !.total_files = 2] ) @@
    ( <<"F">> :> [NoCounters EXCEPT !.type = "folder_start", !.folder_index = 1,
                                    !.total_folders = 2] ) @@
    ( <<"f">> :> [NoCounters EXCEPT !.type = "file_start", !.file_index = 1,
                                    !.total_files = 2] ) @@
    ( <<"e">> :> [NoCounters EXCEPT !.type = "file_complete"] ) @@
    ( <<"b">> :> [NoCounters EXCEPT !.type = "file_start", !.file_index = 1,
                                    !.total_files = 4, !.folder_index = 1,
                                    !.total_folders = 2] ) @@
    ( <<"r">> :> [NoCounters EXCEPT !.type = "file_error"] ) @@
    ( <<"R">> :> [NoCounters EXCEPT !.type = "folder_error"] ) @@
    ( <<WideChar>> :> [NoCounters EXCEPT !.type = "processing"] ) @@
    ( <<"c">> :> [NoCounters EXCEPT !.type = "complete", !.folders_processed = 1,
                                    !.results = <<FolderA>>] ) @@
    ( <<"k">> :> [NoCounters EXCEPT !.type = "complete", !.folders_processed = 2,
                                    !.results = <<FolderA2, FolderB>>] )

\* JSON.parse(line.slice(6)) inside try/catch
JSONParse(payload) ==
    IF payload \in DOMAIN JsonTexts
    THEN [ok |-> TRUE, data |-> JsonTexts[payload]]
    ELSE [ok |-> FALSE, data |-> [NoCounters EXCEPT !.type = "SyntaxError"]]

----------------------------------------------------------------------------
(* updateProgress: the progress log (innerHTML of the details element, one  *)
(* entry per paragraph), the fill width in percent and the progress text   *)

LoggedTypes ==
    {"folder_start", "file_start", "processing", "saving", "file_complete",
     "file_error", "design_start", "design_complete", "folder_complete",
     "folder_error", "complete"}

updateProgress(data, dom) ==
    LET html == IF data.type = "start" THEN <<data.type>>
                ELSE IF data.type \in LoggedTypes THEN Append(dom.log, data.type)
                ELSE dom.log
        bar == IF data.type = "start" /\ data.total_files # 0
                   THEN [fill |-> 0, text |-> <<0, data.total_files, "files">>]
               ELSE IF data.type = "folder_start" /\ data.total_folders # 0
                   THEN [fill |-> (data.folder_index * 100) \div data.total_folders,
                         text |-> <<data.folder_index, data.total_folders, "folders">>]
               ELSE IF data.type = "file_start" /\ data.total_files # 0
                   THEN [fill |-> (data.file_index * 100) \div data.total_files,
                         text |-> <<data.file_index, data.total_files, "files">>]
               ELSE IF data.type = "complete"
                   THEN [fill |-> 100,
                         text |-> <<data.folders_processed, data.folders_processed,
                                    "folders">>]
               ELSE [fill |-> dom.fill, text |-> dom.text]
    IN [log |-> html, fill |-> bar.fill, text |-> bar.text]

\* the first `complete` record wins
StoreFinalFirst(data, final) ==
    IF data.type = "complete" /\ final = <<>> THEN <<data>> ELSE final

\* if (data.type === 'complete') finalResult = data
StoreFinal(data, final) == IF data.type = "complete" THEN <<data>> ELSE final

\* this mutant has no try/catch effect: the value of a failed parse is
\* handed on like a record
ApplyLineKeepsBad(line, st) ==
    IF ~StartsWithData(line) THEN st
    ELSE LET r == JSONParse(SubSeq(line, Len(DataPrefix) + 1, Len(line))) IN
         [dom |-> updateProgress(r.data, st.dom),
          final |-> IF r.ok THEN StoreFinal(r.data, st.final) ELSE <<>>,
          decoded |-> st.decoded \o (IF r.ok THEN <<r.data>> ELSE <<>>)]

\* the body of `for (const line of lines)`: st carries the DOM, finalResult
\* and the list of records handed to updateProgress
ApplyLine(line, st) ==
    IF ~StartsWithData(line) THEN st
    ELSE LET r == JSONParse(SubSeq(line, Len(DataPrefix) + 1, Len(line))) IN
         IF ~r.ok THEN st
         ELSE [dom |-> updateProgress(r.data, st.dom),
               final |-> StoreFinal(r.data, st.final),
               decoded |-> Append(st.decoded, r.data)]

RECURSIVE ApplyLines(_, _)
ApplyLines(lines, st) ==
    IF lines = <<>> THEN st
    ELSE ApplyLines(Tail(lines), ApplyLine(Head(lines), st))

\* buffer = lines.pop() || ''
HeldBack(lines) == Last(lines)

\* this mutant applies the text after the last newline as a line, too
ProcessChunkWithTail(value, loc, dom) ==
    LET dec == DecodeStream(loc.pending, value)
        lines == Split(loc.buffer \o dec.chars)
        st == ApplyLines(lines,
                         [dom |-> dom, final |-> loc.final, decoded |-> loc.decoded])
    IN [pending |-> dec.pending, buffer |-> HeldBack(lines), final |-> st.final,
        decoded |-> st.decoded, dom |-> st.dom]

\* one pass of the read loop body after reader.read() returned a chunk
ProcessChunk(value, loc, dom) ==
    LET dec == DecodeStream(loc.pending, value)
        lines == Split(loc.buffer \o dec.chars)
        st == ApplyLines(Front(lines),
                         [dom |-> dom, final |-> loc.final, decoded |-> loc.decoded])
    IN [pending |-> dec.pending, buffer |-> HeldBack(lines), final |-> st.final,
        decoded |-> st.decoded, dom |-> st.dom]

----------------------------------------------------------------------------
(* addRecentFolder and the folder records built from the final result *)

MaxRecentFolders == 20

ProcessedSuffix == "/Processed"

\* processedFolders.push({...}) for one entry of result.results
ProcessedFolder(folder) ==
    [name |-> folder.folder_name \o ProcessedSuffix,
     path |-> IF folder.folder_path # ""
              THEN folder.folder_path \o ProcessedSuffix
              ELSE "/" \o folder.folder_name \o ProcessedSuffix,
     files_processed |-> folder.files_processed]

SameFolder(f, g) == f.path = g.path /\ f.name = g.name

addRecentFolder(list, folderInfo) ==
    LET hits == {n \in 1..Len(list) : SameFolder(list[n], folderInfo)}
        put == IF hits # {}
               THEN [list EXCEPT ![CHOOSE n \in hits : \A m \in hits : n <= m] =
                                    folderInfo]
               ELSE <<folderInfo>> \o list
    IN IF Len(put) > MaxRecentFolders THEN SubSeq(put, 1, MaxRecentFolders) ELSE put

\* result.results of the final result (no folders when there is none)
Results(final) == IF final = <<>> THEN <<>> ELSE final[1].results

RECURSIVE AddAll(_, _)
AddAll(list, folders) ==
    IF folders = <<>> THEN list
    ELSE AddAll(addRecentFolder(list, ProcessedFolder(Head(folders))), Tail(folders))

----------------------------------------------------------------------------
(* Response bodies of /api/batch-process-folders used as inputs *)

DataLine(payload) == DataPrefix \o payload \o <<NL>>

RECURSIVE Flatten(_)
Flatten(ls) == IF ls = <<>> THEN <<>> ELSE Head(ls) \o Flatten(Tail(ls))

\* lines of the bodies of SpecStream: two different `complete` records, a
\* record with a two-byte character, a payload that is not JSON, and the
\* blank line between events
StreamLines ==
    {DataLine(<<"c">>), DataLine(<<"k">>), DataLine(<<LeadByte, ContByte>>),
     DataLine(<<"x">>), <<NL>>}

\* what may follow the last newline: nothing, or an unterminated record
StreamTails == {<<>>, DataPrefix \o <<"c">>}

StreamBodies ==
    {Flatten(ls) \o t :
        ls \in UNION {[1..n -> StreamLines] : n \in 0..MaxLines},
        t \in StreamTails}

\* lines that carry no record: a payload that is not JSON, a blank line, and
\* a JSON text without the `data: ` prefix
DiscardLines == {DataLine(<<"x">>), <<NL>>, <<"c", NL>>}

\* bodies of SpecLines: a file_start record and the `complete` record, each
\* followed by a line that carries no record or by nothing
LineBodies ==
    {DataLine(<<"f">>) \o u \o DataLine(<<"c">>) \o v :
        u \in DiscardLines, v \in DiscardLines \cup {<<>>}}

\* payloads of the bodies of SpecProgress: start, folder_start, file_start
\* without and with the folder counters, file_error, folder_error, complete
ProgressPayloads == {"s", "F", "f", "b", "r", "R", "c"}

\* bodies of SpecProgress: three records of any of these kinds
ProgressBodies ==
    {DataLine(<<x>>) \o DataLine(<<y>>) \o DataLine(<<z>>) :
        x \in ProgressPayloads, y \in ProgressPayloads, z \in ProgressPayloads}

\* the offsets at which a line of b ends
LineEnds(b) == {n \in 1..Len(b) : b[n] = NL}

\* body of SpecErrors: a file_error, a folder_error, the `complete` record
ErrorsBody == DataLine(<<"r">>) \o DataLine(<<"R">>) \o DataLine(<<"c">>)

\* body of Spec: one file, then the `complete` record
BatchBody == DataLine(<<"f">>) \o DataLine(<<"e">>) \o DataLine(<<"c">>)

\* body of SpecStart: one `complete` record
StartBody == DataLine(<<"c">>)

----------------------------------------------------------------------------
(* Models and API keys *)

Models == {"fal", "fal_object_removal", "replicate", "removebg"}

\* no model needs a stored key
KeyOptionalAll(model) == TRUE

\* the models whose key may be absent from localStorage
KeyOptional(model) ==
    model = "replicate" \/ model = "fal" \/ model = "fal_object_removal"

\* modelManager.getApiKey(model): the stored key, or null
getApiKey(keys, model) == IF model \in keys THEN <<model>> ELSE <<>>

----------------------------------------------------------------------------
(* State *)

VARIABLES
    \* environment and persistent state
    body,                   \* bytes the server sends for a batch request
    cuts,                   \* offsets at which the network may cut the body
    apiKeys,                \* models with an api_key_<model> in localStorage
    batchModelSelect,       \* value of #batchModelSelect
    startsLeft,             \* clicks on the start control still to come
    recentFolders,          \* App.recentFolders
    \* App fields and controls shared by every run
    batchProcessingPaused,
    batchProcessingStopped,
    batchProcessingReader,  \* 0 for null, else the run whose reader it is
    startBtnDisabled,
    stopBtnVisible,
    progress,               \* [log, fill, text] of the progress elements
    errorEl,                \* the message shown last, <<>> for none
    \* one invocation of startBatchProcessing (a run), per run id
    pc,
    hasToken,               \* result of checkAuth, <<>> before it returned
    streamState,            \* "none", "open", "closed", "errored", "released"
    pos,                    \* bytes of body already returned by reader.read()
    loc,                    \* [pending, buffer, final, decoded]
    exit,                   \* how the read loop was left
    shown,                  \* messages this run has shown
    summary,                \* the result rendered into #batchResults
    added,                  \* addRecentFolder calls made by this run
    posted,                 \* the FormData posted to the batch endpoint
    stopCalled,             \* <<>>, or where the run in flight was at stop()
    \* the single-image pipeline
    currentFile,            \* App.currentFile, NoFile for null
    currentFileSource,      \* App.currentFileSource, <<>> for null
    currentModel,           \* modelManager.currentModel
    uploadedImageDimensions, \* <<>> for null
    uploadImg,              \* #uploadImage: [attached, src, complete, natural]
    detached,               \* elements replaced in the preview, events pending
    previewVisible,         \* #uploadPreview is displayed
    processBtnVisible,      \* #processBtn is displayed
    processBtnDisabled,
    editBtnsVisible,        \* the controls of a result are displayed
    bgBtnDisabled,          \* #placeOnBackgroundBtn is disabled
    fileReads,              \* FileReader loads not finished yet
    downloads,              \* downloads from remote storage not finished yet
    timers,                 \* pending setTimeout(updateDimensions, 100)
    proc,                   \* the invocations of processImage, per slot
    processedImage,         \* the templated artifact, <<>> for none
    processedImageBlob,     \* the pre-template artifact, <<>> for none
    backgroundImage,        \* the background-placed artifact, <<>> for none
    processedImg,           \* #processedImage: [pending, onload]
    reportedSize,           \* text of #processedImageDimensions, <<>> if none
    resizes,                \* the calls of changeResolution in flight
    bgCall,                 \* the fetch of placeOnBackground in flight
    templateCall,           \* the last placeOnTemplate call of processImage
    uploads,                \* what uploadFile stored on the remote storage
    lastResolution,         \* the changeResolution call asked for last
    lastSave,               \* the automatic save decided last
    clicksLeft,             \* clicks on the single-image controls to come
    \* the remote storage client
    storage,                \* the folders that exist on the remote storage
    clientCall,             \* the call of a client method in flight, or <<>>
    lastCall,               \* the call that ended last, with its outcome
    callsLeft,              \* calls of client methods still to come
    \* the list of the recent folders
    clock,                  \* the time new Date() gave last
    disk,                   \* the folders of processed files on the storage
    refreshPc,              \* where refreshRecentFolders is: idle, auth, walk
    addsLeft,               \* calls and clicks on the recent list to come
    \* checkAuth of the remote storage client
    localToken,             \* localStorage yandex_disk_token, <<>> for none
    accessToken,            \* YandexDiskManager.accessToken, <<>> for null
    authCall,               \* the call of checkAuth in flight, or <<>>
    lastAuth,               \* the call of checkAuth that ended last
    authsLeft,              \* calls of checkAuth and authorizations to come
    \* processFolder
    folderJob               \* the invocation of processFolder

shared ==
    <<batchProcessingPaused, batchProcessingStopped, batchProcessingReader,
      startBtnDisabled, stopBtnVisible, progress, errorEl>>
chosen == <<currentFile, currentFileSource>>
preview ==
    <<uploadImg, detached, timers, previewVisible, processBtnVisible,
      uploadedImageDimensions>>
loads == <<fileReads, downloads>>
artifacts == <<processedImage, processedImageBlob, backgroundImage>>
resultView == <<processedImg, reportedSize, editBtnsVisible>>
calls == <<proc, resizes, bgCall>>
history == <<templateCall, uploads, lastResolution, lastSave>>
image ==
    <<chosen, preview, loads, artifacts, resultView, calls, history, clicksLeft,
      currentModel, processBtnDisabled, bgBtnDisabled>>
client == <<storage, clientCall, lastCall, callsLeft>>
recent == <<clock, disk, refreshPc, addsLeft>>
auth == <<localToken, accessToken, authCall, lastAuth, authsLeft>>
env ==
    <<body, cuts, apiKeys, batchModelSelect, startsLeft, recentFolders, image,
      client, recent, auth, folderJob>>
run == <<pc, hasToken, streamState, pos, loc, exit, shown, summary, added, posted,
        stopCalled>>
\* everything but the single-image pipeline and the message element
batchSide ==
    <<body, cuts, apiKeys, batchModelSelect, startsLeft, recentFolders,
      batchProcessingPaused, batchProcessingStopped, batchProcessingReader,
      startBtnDisabled, stopBtnVisible, progress, run, client, recent,
      auth, folderJob>>
vars == <<env, shared, run>>

\* slots for the invocations of startBtn's handler that overlap in time
Runs == {1, 2}

Msg(kind, text) == [kind |-> kind, text |-> text]
AuthRequired == Msg("error", "auth_required")
BatchError(text) == Msg("error", text)
StoppedNotice == Msg("warning", "processing_stopped")
StoppingNotice == Msg("warning", "stopping")
ContinuedNotice == Msg("success", "continued")
CompleteNotice == Msg("success", "complete")

NoFinalResult == "no_final_result"

EmptyLoc == [pending |-> <<>>, buffer |-> <<>>, final |-> <<>>, decoded |-> <<>>]
EmptyProgress == [log |-> <<>>, fill |-> 0, text |-> <<>>]
\* the paragraph the log holds when the request is sent
BeginLog == <<"begin">>

\* processFolder is not running: where it is, the image files of the folder,
\* the index of the file of the current iteration, the files whose download
\* was requested, the files stored, the local `processed`, and the messages
\* shown by this invocation
IdleFolderJob ==
    [pc |-> "idle", imageFiles |-> <<>>, at |-> 0, requested |-> <<>>,
     stored |-> <<>>, processed |-> 0, shown |-> <<>>]

InitApp ==
    /\ batchProcessingPaused = FALSE
    /\ batchProcessingStopped = FALSE
    /\ batchProcessingReader = 0
    /\ startBtnDisabled = FALSE
    /\ stopBtnVisible = FALSE
    /\ progress = EmptyProgress
    /\ errorEl = <<>>
    /\ pc = [i \in Runs |-> "idle"]
    /\ hasToken = [i \in Runs |-> <<>>]
    /\ streamState = [i \in Runs |-> "none"]
    /\ pos = [i \in Runs |-> 0]
    /\ loc = [i \in Runs |-> EmptyLoc]
    /\ exit = [i \in Runs |-> "none"]
    /\ shown = [i \in Runs |-> {}]
    /\ summary = [i \in Runs |-> <<>>]
    /\ added = [i \in Runs |-> 0]
    /\ posted = [i \in Runs |-> <<>>]
    /\ stopCalled = [i \in Runs |-> <<>>]
    /\ storage = {}
    /\ clientCall = <<>>
    /\ lastCall = <<>>
    /\ refreshPc = "idle"
    /\ accessToken = <<>>
    /\ authCall = <<>>
    /\ lastAuth = <<>>
    /\ folderJob = IdleFolderJob

\* the recent list is empty and stays as the batch runs leave it
\* no token is stored and checkAuth is not called
NoAuth == localToken = <<>> /\ authsLeft = 0

NoRecent ==
    /\ recentFolders = <<>>
    /\ clock = 0
    /\ disk = <<>>
    /\ addsLeft = 0

NoFile == "none"

\* no model chosen, and the page without an #uploadImage element
NoModel == ""
NoElement ==
    [attached |-> FALSE, src |-> NoFile, complete |-> FALSE, natural |-> NoFile]

\* the invocations of processImage that can be in flight at once
Slots == {1, 2}

\* a slot without an invocation of processImage; the other fields are the
\* locals of an invocation
IdleProc ==
    [pc |-> "idle", file |-> NoFile, request |-> <<>>, width |-> 0, height |-> 0,
     folder |-> <<>>, path |-> <<>>]

\* no file was chosen yet
NothingChosen ==
    /\ currentFile = NoFile
    /\ currentFileSource = <<>>
    /\ uploadedImageDimensions = <<>>
    /\ uploadImg = [attached |-> TRUE, src |-> NoFile, complete |-> TRUE,
                    natural |-> NoFile]
    /\ previewVisible = FALSE
    /\ processBtnVisible = FALSE

\* nothing is being loaded, nothing was processed, the model is the one
\* init() sets
NothingProcessed ==
    /\ currentModel = "replicate"
    /\ detached = {}
    /\ processBtnDisabled = FALSE
    /\ editBtnsVisible = FALSE
    /\ bgBtnDisabled = FALSE
    /\ fileReads = {}
    /\ downloads = {}
    /\ timers = 0
    /\ proc = [i \in Slots |-> IdleProc]
    /\ processedImage = <<>>
    /\ processedImageBlob = <<>>
    /\ backgroundImage = <<>>
    /\ processedImg = [pending |-> FALSE, onload |-> <<>>]
    /\ reportedSize = <<>>
    /\ resizes = {}
    /\ bgCall = <<>>
    /\ templateCall = <<>>
    /\ uploads = {}
    /\ lastResolution = <<>>
    /\ lastSave = <<>>

\* the single-image state after the App constructor and init()
InitImageState == NothingChosen /\ NothingProcessed

\* the stored keys and the selected model of the behaviours explored
KeyStores == {{}, {"removebg", "fal"}}

StrideCuts(b) == {n \in 1..Len(b) : n % CutStride = 0}

Init ==
    /\ InitApp
    /\ InitImageState
    /\ clicksLeft = 0
    /\ callsLeft = 0
    /\ NoAuth
    /\ NoRecent
    /\ body = BatchBody
    /\ cuts = StrideCuts(body)
    /\ apiKeys = {}
    /\ batchModelSelect \in {"fal", "removebg"}
    /\ startsLeft = MaxStarts

\* every stored-key set and model, on one body
InitStart ==
    /\ InitApp
    /\ InitImageState
    /\ clicksLeft = 0
    /\ callsLeft = 0
    /\ NoAuth
    /\ NoRecent
    /\ body = StartBody
    /\ cuts = StrideCuts(body)
    /\ apiKeys \in KeyStores
    /\ batchModelSelect \in Models
    /\ startsLeft = MaxStarts

\* one run, every body of at most MaxLines lines, cut at every byte
InitStream ==
    /\ InitApp
    /\ InitImageState
    /\ clicksLeft = 0
    /\ callsLeft = 0
    /\ NoAuth
    /\ NoRecent
    /\ body \in StreamBodies
    /\ cuts = 1..Len(body)
    /\ apiKeys = {}
    /\ batchModelSelect \in {"fal", "removebg"}
    /\ startsLeft = 1

\* no batch run; files are chosen and processed one at a time
InitImage ==
    /\ InitApp
    /\ InitImageState
    /\ clicksLeft = MaxClicks
    /\ callsLeft = 0
    /\ NoAuth
    /\ NoRecent
    /\ body = StartBody
    /\ cuts = {}
    /\ apiKeys = {}
    /\ batchModelSelect = "fal"
    /\ startsLeft = 0

\* the page after a file of the picker was chosen, read, decoded and measured
InitLoaded ==
    /\ InitApp
    /\ NothingProcessed
    /\ currentFile = "A"
    /\ currentFileSource = <<>>
    /\ uploadImg = [attached |-> TRUE, src |-> "A", complete |-> TRUE,
                    natural |-> "A"]
    /\ uploadedImageDimensions =
          <<[width |-> 4005, height |-> 3004,
             naturalWidth |-> 2000, naturalHeight |-> 1500]>>
    /\ previewVisible = TRUE
    /\ processBtnVisible = TRUE
    /\ clicksLeft = LoadedClicks
    /\ callsLeft = 0
    /\ NoAuth
    /\ NoRecent
    /\ body = StartBody
    /\ cuts = {}
    /\ apiKeys \in KeyStores
    /\ batchModelSelect = "fal"
    /\ startsLeft = 0

----------------------------------------------------------------------------
(* startBatchProcessing *)

\* a run that passed the authorization check and has not terminated
Active(i) == pc[i] \in {"fetch", "read", "pauseWait", "cancel"}

\* click on the start control: the handler reads the form and awaits
\* checkAuth.  The invocation takes a free slot, whose record of the previous
\* invocation is dropped.
StartClick ==
    /\ ~startBtnDisabled
    /\ startsLeft > 0
    /\ \E i \in Runs :
         /\ pc[i] \in {"idle", "done"}
         /\ \A j \in Runs : pc[j] \in {"idle", "done"} => i <= j
         /\ pc' = [pc EXCEPT ![i] = "checkAuth"]
         /\ hasToken' = [hasToken EXCEPT ![i] = <<>>]
         /\ streamState' = [streamState EXCEPT ![i] = "none"]
         /\ exit' = [exit EXCEPT ![i] = "none"]
         /\ shown' = [shown EXCEPT ![i] = {}]
         /\ summary' = [summary EXCEPT ![i] = <<>>]
         /\ added' = [added EXCEPT ![i] = 0]
         /\ posted' = [posted EXCEPT ![i] = <<>>]
         /\ stopCalled' = [stopCalled EXCEPT ![i] = <<>>]
    /\ startsLeft' = startsLeft - 1
    /\ UNCHANGED <<body, cuts, apiKeys, batchModelSelect, recentFolders, image,
                   client, recent, auth, folderJob, shared, pos,
                   loc>>

\* if (!hasToken) { showError(...); return; }
Authorized(token) == token

\* if (!apiKey && model !== 'replicate' && model !== 'fal' && ...) throw
KeyRequired(keys, model) == getApiKey(keys, model) = <<>> /\ ~KeyOptional(model)

\* checkAuth answered false
AuthDenied(i) ==
    /\ pc[i] = "checkAuth"
    /\ \E token \in BOOLEAN :
         /\ ~Authorized(token)
         /\ hasToken' = [hasToken EXCEPT ![i] = <<token>>]
    /\ pc' = [pc EXCEPT ![i] = "done"]
    /\ exit' = [exit EXCEPT ![i] = "denied"]
    /\ shown' = [shown EXCEPT ![i] = @ \cup {AuthRequired}]
    /\ errorEl' = <<AuthRequired>>
    /\ UNCHANGED <<env, batchProcessingPaused, batchProcessingStopped,
                   batchProcessingReader, startBtnDisabled, stopBtnVisible,
                   progress, streamState, pos, loc, summary, added, posted,
                   stopCalled>>

\* checkAuth answered true; the key the model needs is not stored: the throw
\* is caught by the outer catch
KeyMissing(i) ==
    /\ pc[i] = "checkAuth"
    /\ \E token \in BOOLEAN :
         /\ Authorized(token)
         /\ hasToken' = [hasToken EXCEPT ![i] = <<token>>]
    /\ KeyRequired(apiKeys, batchModelSelect)
    /\ batchProcessingPaused' = FALSE
    /\ batchProcessingStopped' = FALSE
    /\ batchProcessingReader' = 0
    /\ stopBtnVisible' = FALSE
    /\ startBtnDisabled' = FALSE
    /\ pc' = [pc EXCEPT ![i] = "done"]
    /\ exit' = [exit EXCEPT ![i] = "no_api_key"]
    /\ shown' = [shown EXCEPT ![i] = @ \cup {BatchError("no_api_key")}]
    /\ errorEl' = <<BatchError("no_api_key")>>
    /\ UNCHANGED <<env, progress, streamState, pos, loc, summary, added, posted,
                   stopCalled>>

\* checkAuth answered true and the key check passed: the controls and flags
\* are reset and the request is sent
PostBatch(i) ==
    /\ pc[i] = "checkAuth"
    /\ \E token \in BOOLEAN :
         /\ Authorized(token)
         /\ hasToken' = [hasToken EXCEPT ![i] = <<token>>]
    /\ ~KeyRequired(apiKeys, batchModelSelect)
    /\ batchProcessingPaused' = FALSE
    /\ batchProcessingStopped' = FALSE
    /\ batchProcessingReader' = 0
    /\ startBtnDisabled' = TRUE
    /\ stopBtnVisible' = TRUE
    /\ posted' = [posted EXCEPT ![i] =
                    <<[model |-> batchModelSelect,
                       apiKey |-> getApiKey(apiKeys, batchModelSelect)]>>]
    /\ progress' = [progress EXCEPT !.log = BeginLog]
    /\ pc' = [pc EXCEPT ![i] = "fetch"]
    /\ UNCHANGED <<env, errorEl, streamState, pos, loc, exit, shown, summary, added,
                   stopCalled>>

\* fetch rejected, or the response is not ok: the outer catch
FetchFailed(i) ==
    /\ pc[i] = "fetch"
    /\ \E err \in {"fetch_failed", "http_error"} :
         /\ shown' = [shown EXCEPT ![i] = @ \cup {BatchError(err)}]
         /\ errorEl' = <<BatchError(err)>>
    /\ startBtnDisabled' = FALSE
    /\ pc' = [pc EXCEPT ![i] = "done"]
    /\ exit' = [exit EXCEPT ![i] = "fetch_failed"]
    /\ stopCalled' = [stopCalled EXCEPT ![i] = <<>>]
    /\ UNCHANGED <<env, batchProcessingPaused, batchProcessingStopped,
                   batchProcessingReader, stopBtnVisible, progress, hasToken,
                   streamState, pos, loc, summary, added, posted>>

\* a loop top without the pause wait
LoopTopNoPause == IF batchProcessingStopped THEN "cancel" ELSE "read"

\* top of `while (true)`: where the loop suspends next
LoopTop ==
    IF batchProcessingStopped THEN "cancel"
    ELSE IF batchProcessingPaused THEN "pauseWait"
    ELSE "read"

\* after the pause wait: the second check of the stopped flag
AfterPause == IF batchProcessingStopped THEN "cancel" ELSE "read"

\* reader.cancel() closes a readable stream; an errored one stays errored
Cancel(state) == IF state = "open" THEN "closed" ELSE state

\* the run moves to suspension point `to`, cancelling its reader on the way
\* when that point is the awaited reader.cancel()
Suspend(i, to, streams) ==
    /\ pc' = [pc EXCEPT ![i] = to]
    /\ streamState' = IF to = "cancel"
                      THEN [streams EXCEPT ![i] = Cancel(streams[i])]
                      ELSE streams

\* the response is ok: the reader is taken and the loop is entered
StreamOpened(i) ==
    /\ pc[i] = "fetch"
    /\ batchProcessingReader' = i
    /\ Suspend(i, LoopTop, [streamState EXCEPT ![i] = "open"])
    /\ UNCHANGED <<env, batchProcessingPaused, batchProcessingStopped,
                   startBtnDisabled, stopBtnVisible, progress, errorEl, hasToken,
                   pos, loc, exit, shown, summary, added, posted,
                   stopCalled>>

\* the 100 ms timer of the pause wait fires and the wait condition is false
PollWake(i) ==
    /\ pc[i] = "pauseWait"
    /\ ~(batchProcessingPaused /\ ~batchProcessingStopped)
    /\ Suspend(i, AfterPause, streamState)
    /\ UNCHANGED <<env, shared, hasToken, pos, loc, exit, shown, summary, added,
                   posted, stopCalled>>

\* reader.read() returns the next bytes, cut wherever the network cut them
ReadChunk(i) ==
    /\ pc[i] = "read"
    /\ streamState[i] = "open"
    /\ pos[i] < Len(body)
    /\ \E n \in 1..(Len(body) - pos[i]) :
         /\ pos[i] + n \in cuts \cup {Len(body)}
         /\ LET r == ProcessChunk(SubSeq(body, pos[i] + 1, pos[i] + n), loc[i],
                               progress)
            IN /\ pos' = [pos EXCEPT ![i] = @ + n]
               /\ loc' = [loc EXCEPT ![i] =
                            [pending |-> r.pending, buffer |-> r.buffer,
                             final |-> r.final, decoded |-> r.decoded]]
               /\ progress' = r.dom
    /\ Suspend(i, LoopTop, streamState)
    /\ UNCHANGED <<env, batchProcessingPaused, batchProcessingStopped,
                   batchProcessingReader, startBtnDisabled, stopBtnVisible,
                   errorEl, hasToken, exit, shown, summary, added, posted,
                   stopCalled>>

\* no check of the final result after the loop
ThrownNoCheck(final, how, caught, stopped) ==
    IF caught /\ ~stopped THEN <<how>> ELSE <<>>

\* the error that reaches the outer catch after the loop, <<>> for none: the
\* inner catch rethrows unless the job is stopped; `if (!finalResult) throw`
Thrown(final, how, caught, stopped) ==
    IF caught /\ ~stopped THEN <<how>>
    ELSE IF final = <<>> THEN <<NoFinalResult>>
    ELSE <<>>

\* what follows the read loop: the finally block (the reader is released),
\* then either the throw of the missing final result (or the rethrown error)
\* into the outer catch, or the rendering of the results.  `caught` tells
\* that the inner catch ran.  The locals of the invocation end with it.
LeaveLoop(i, how, caught) ==
    LET swallowed == caught /\ batchProcessingStopped
        thrown == Thrown(loc[i].final, how, caught, batchProcessingStopped)
        notices == IF swallowed THEN {StoppedNotice} ELSE {}
    IN /\ pc' = [pc EXCEPT ![i] = "done"]
       /\ exit' = [exit EXCEPT ![i] = how]
       /\ batchProcessingReader' = 0
       /\ startBtnDisabled' = FALSE
       /\ stopBtnVisible' = FALSE
       /\ streamState' = [streamState EXCEPT ![i] = "released"]
       /\ pos' = [pos EXCEPT ![i] = 0]
       /\ loc' = [loc EXCEPT ![i] = EmptyLoc]
       /\ IF thrown # <<>>
          THEN /\ shown' = [shown EXCEPT ![i] =
                              @ \cup notices \cup {BatchError(thrown[1])}]
               /\ errorEl' = <<BatchError(thrown[1])>>
               /\ UNCHANGED <<summary, recentFolders, added>>
          ELSE /\ summary' = [summary EXCEPT ![i] = loc[i].final]
               /\ recentFolders' = AddAll(recentFolders, Results(loc[i].final))
               /\ added' = [added EXCEPT ![i] = @ + Len(Results(loc[i].final))]
               /\ shown' = [shown EXCEPT ![i] = @ \cup notices \cup {CompleteNotice}]
               /\ errorEl' = <<CompleteNotice>>
       /\ stopCalled' = [stopCalled EXCEPT ![i] = <<>>]
       /\ UNCHANGED <<body, cuts, apiKeys, batchModelSelect, startsLeft, image,
                      client, recent, auth, folderJob, batchProcessingPaused,
                      batchProcessingStopped, progress,
                      hasToken, posted>>

\* reader.read() reports done: the server ended the body, or the stream was
\* cancelled
ReadDone(i) ==
    /\ pc[i] = "read"
    /\ \/ streamState[i] = "closed"
       \/ streamState[i] = "open" /\ pos[i] = Len(body)
    /\ LeaveLoop(i, IF streamState[i] = "closed" THEN "cancelled" ELSE "eof", FALSE)

\* reader.read() rejects: the connection failed
ReadFailed(i) ==
    /\ pc[i] = "read"
    /\ streamState[i] \in {"open", "errored"}
    /\ LeaveLoop(i, "read_failed", TRUE)

\* the connection fails while the loop is in the pause wait
StreamError(i) ==
    /\ pc[i] = "pauseWait"
    /\ streamState[i] = "open"
    /\ streamState' = [streamState EXCEPT ![i] = "errored"]
    /\ UNCHANGED <<env, shared, pc, hasToken, pos, loc, exit, shown, summary,
                   added, posted, stopCalled>>

\* the awaited reader.cancel() settles; it rejects on an errored stream
CancelReturn(i) ==
    /\ pc[i] = "cancel"
    /\ IF streamState[i] = "errored"
       THEN LeaveLoop(i, "cancel_failed", TRUE)
       ELSE LeaveLoop(i, "stop_flag", FALSE)

----------------------------------------------------------------------------
(* stop, pause, continue *)

\* a `complete` record is among the records decoded so far
HasComplete(decoded) == \E n \in 1..Len(decoded) : decoded[n].type = "complete"

\* the records decoded so far end inside a file: a file_start with no
\* file_complete after it, and no `complete` record yet
MidFile(decoded) ==
    /\ \E n \in 1..Len(decoded) :
          /\ decoded[n].type = "file_start"
          /\ \A m \in (n + 1)..Len(decoded) : decoded[m].type # "file_complete"
    /\ ~HasComplete(decoded)

stopBatchProcessing ==
    /\ stopBtnVisible
    /\ batchProcessingStopped' = TRUE
    /\ batchProcessingPaused' = FALSE
    /\ stopBtnVisible' = FALSE
    /\ streamState' = IF batchProcessingReader # 0
                      THEN [streamState EXCEPT ![batchProcessingReader] = Cancel(@)]
                      ELSE streamState
    /\ errorEl' = <<StoppingNotice>>
    /\ stopCalled' = [i \in Runs |->
                        IF ~Active(i) THEN stopCalled[i]
                        ELSE <<[at |-> pc[i],
                                midFile |-> MidFile(loc[i].decoded),
                                complete |-> HasComplete(loc[i].decoded)]>>]
    /\ UNCHANGED <<env, batchProcessingReader, startBtnDisabled, progress, pc,
                   hasToken, pos, loc, exit, shown, summary, added, posted>>

\* the pause operation of the Batch Orchestrator: sets the paused flag
pauseBatchProcessing ==
    /\ \E i \in Runs : Active(i)
    /\ ~batchProcessingPaused
    /\ batchProcessingPaused' = TRUE
    /\ UNCHANGED <<env, batchProcessingStopped, batchProcessingReader,
                   startBtnDisabled, stopBtnVisible, progress, errorEl, run>>

\* the continue control is offered for a paused job
continueBatchProcessing ==
    /\ batchProcessingPaused
    /\ batchProcessingPaused' = FALSE
    /\ stopBtnVisible' = TRUE
    /\ errorEl' = <<ContinuedNotice>>
    /\ UNCHANGED <<env, batchProcessingStopped, batchProcessingReader,
                   startBtnDisabled, progress, run>>

----------------------------------------------------------------------------
(* The single-image pipeline: the ways a file is chosen, clearUpload,        *)
(* processImage with its automatic save, changeResolution and               *)
(* placeOnBackground.                                                        *)

\* the image files of the picker, and a file that is not an image
Images == {"A", "B"}
OtherFile == "T"

\* a file listed for the public share link, and a file of the folder tree
ShareFile == "P"
TreeFile == "Q"

\* file.type.startsWith('image/')
IsImage(file) == file \in Images \cup {ShareFile, TreeFile}

\* naturalWidth and naturalHeight of a decoded file
Natural ==
    ( "A" :> [w |-> 2000, h |-> 1500] ) @@ ( "B" :> [w |-> 800, h |-> 600] ) @@
    ( "P" :> [w |-> 1600, h |-> 1200] ) @@ ( "Q" :> [w |-> 640, h |-> 480] )

\* getBoundingClientRect() of #uploadImage showing a file, in tenths of a pixel
DisplayTenths ==
    ( "A" :> [w |-> 4005, h |-> 3004] ) @@ ( "B" :> [w |-> 4005, h |-> 3004] ) @@
    ( "P" :> [w |-> 4005, h |-> 3004] ) @@ ( "Q" :> [w |-> 4005, h |-> 3004] )

\* Math.round of a length given in tenths of a pixel
Round(tenths) == (tenths + 5) \div 10

\* value of #widthSlider and #heightSlider
SliderValue == 1200

\* uploadImg.getBoundingClientRect(): nothing is laid out while the preview
\* is hidden, before a file was decoded, or for an element that left the page
Rect(img, visible) ==
    IF visible /\ img.attached /\ img.natural # NoFile
    THEN DisplayTenths[img.natural]
    ELSE [w |-> 0, h |-> 0]

NaturalOf(img) ==
    IF img.natural # NoFile THEN Natural[img.natural] ELSE [w |-> 0, h |-> 0]

\* the dimensions read in the fallback branch: the on-screen size
DisplaySize(img, visible) ==
    [w |-> Round(Rect(img, visible).w), h |-> Round(Rect(img, visible).h)]

\* templateWidth and templateHeight as processImage computes them after the
\* remote processing call returned; img is what getElementById('uploadImage')
\* finds, which is nothing while the preview holds the spinner
TemplateSize(img, dims, visible) ==
    IF img.attached /\ img.complete
    THEN IF dims # <<>> /\ dims[1].naturalWidth # 0 /\ dims[1].naturalHeight # 0
         THEN [w |-> dims[1].naturalWidth, h |-> dims[1].naturalHeight]
         ELSE DisplaySize(img, visible)
    ELSE [w |-> SliderValue, h |-> SliderValue]

\* the file name of a chosen file, split at its dots
FileName(file) == <<file, "jpg">>

\* the value of #yandexUrlInput, and the path of a file of the folder tree,
\* both split at their slashes
ShareUrl == <<"https:", "", "disk.yandex.ru", "d", "Fid">>
TreePath(file) == <<"disk:", "Photos">> \o <<file>>

\* folderUrl.match(/\/d\/([^/?]+)/): the segment that follows the first "/d/",
\* <<>> when there is no match
FolderIdOf(url) ==
    LET ks == {k \in 2..(Len(url) - 1) : url[k] = "d" /\ url[k + 1] # ""}
    IN IF ks = {} THEN <<>>
       ELSE <<url[(CHOOSE k \in ks : \A j \in ks : k <= j) + 1]>>

\* originalFileName.replace(/\.[^/.]+$/, '') + '.png'
PngName(name) ==
    (IF Len(name) > 1 /\ Last(name) # "" THEN Front(name) ELSE name) \o <<"png">>

\* currentFileSource as the two remote ways of choosing a file set it
YandexSource(folderUrl, file) ==
    <<[type |-> "yandex", folderUrl |-> folderUrl, fileName |-> FileName(file)]>>

IsYandex(source) == source # <<>> /\ source[1].type = "yandex"

\* the element a timer or a load event belongs to left the page while the
\* event was still to come
Detach(img, pending, tag) ==
    IF img.attached /\ (~img.complete \/ pending > 0)
    THEN {[src |-> img.src, complete |-> img.complete, natural |-> img.natural,
           attached |-> FALSE, timers |-> pending, id |-> tag]}
    ELSE {}

\* the values read from an element when its timer fires
Captured(img, visible, dims) ==
    IF img.complete
    THEN <<[width |-> Rect(img, visible).w,
            height |-> Rect(img, visible).h,
            naturalWidth |-> NaturalOf(img).w,
            naturalHeight |-> NaturalOf(img).h]>>
    ELSE dims

\* a file that is not an image is chosen
SelectRejected ==
    /\ clicksLeft > 0
    /\ clicksLeft' = clicksLeft - 1
    /\ \E file \in {OtherFile} :
         /\ ~IsImage(file)
         /\ errorEl' = <<Msg("error", "not_an_image")>>
    /\ UNCHANGED <<batchSide, chosen, preview, loads, artifacts, resultView,
                   calls, history, currentModel, processBtnDisabled,
                   bgBtnDisabled>>

\* the body of handleFileSelect for an image file: it becomes the current
\* file at once, a source that is not remote storage is dropped, and a
\* FileReader starts reading the file
SelectFile(file, source, n) ==
    /\ currentFile' = file
    /\ currentFileSource' = (IF ~IsYandex(source) THEN <<>> ELSE source)
    /\ fileReads' = fileReads \cup {[n |-> n, file |-> file, via |-> "select"]}

\* an image file of the local picker is chosen
handleFileSelect ==
    /\ clicksLeft > 0
    /\ clicksLeft' = clicksLeft - 1
    /\ \E file \in Images :
         /\ IsImage(file)
         /\ SelectFile(file, currentFileSource, clicksLeft)
    /\ UNCHANGED <<batchSide, errorEl, preview, downloads, artifacts, resultView,
                   calls, history, currentModel, processBtnDisabled,
                   bgBtnDisabled>>

\* click on a file listed for the public share link: its download starts
selectFileFromSidebar ==
    /\ clicksLeft > 0
    /\ clicksLeft' = clicksLeft - 1
    /\ downloads' = downloads \cup
          {[n |-> clicksLeft, file |-> ShareFile, via |-> "sidebar"]}
    /\ UNCHANGED <<batchSide, errorEl, chosen, preview, fileReads, artifacts,
                   resultView, calls, history, currentModel, processBtnDisabled,
                   bgBtnDisabled>>

\* click on a file of the folder tree: the preview shows a spinner in place
\* of #uploadImage and the remove control, and the download starts
loadFileToUpload ==
    /\ clicksLeft > 0
    /\ clicksLeft' = clicksLeft - 1
    /\ previewVisible' = TRUE
    /\ processBtnVisible' = FALSE
    /\ detached' = detached \cup
          Detach(uploadImg, timers, [at |-> "click", n |-> clicksLeft])
    /\ uploadImg' = NoElement
    /\ timers' = 0
    /\ downloads' = downloads \cup
          {[n |-> clicksLeft, file |-> TreeFile, via |-> "tree"]}
    /\ UNCHANGED <<batchSide, errorEl, chosen, uploadedImageDimensions,
                   fileReads, artifacts, resultView, calls, history,
                   currentModel, processBtnDisabled, bgBtnDisabled>>

\* a download answered: the source of the file is recorded and the file is
\* chosen, through handleFileSelect for the share link
DownloadDone ==
    /\ \E d \in downloads :
         /\ downloads' = downloads \ {d}
         /\ IF d.via = "sidebar"
            THEN SelectFile(d.file, YandexSource(ShareUrl, d.file), d.n)
            ELSE /\ currentFileSource' = YandexSource(TreePath(d.file), d.file)
                 /\ fileReads' = fileReads \cup
                       {[n |-> d.n, file |-> d.file, via |-> "tree"]}
                 /\ currentFile' = d.file
    /\ UNCHANGED <<batchSide, errorEl, preview, artifacts, resultView, calls,
                   history, currentModel, processBtnDisabled, bgBtnDisabled,
                   clicksLeft>>

\* a download failed: the catch blocks
DownloadFailed ==
    /\ \E d \in downloads :
         /\ downloads' = downloads \ {d}
         /\ previewVisible' = (IF d.via = "tree" THEN FALSE ELSE previewVisible)
    /\ errorEl' = <<Msg("error", "download")>>
    /\ UNCHANGED <<batchSide, chosen, uploadImg, detached, timers,
                   processBtnVisible, uploadedImageDimensions, fileReads,
                   artifacts, resultView, calls, history, currentModel,
                   processBtnDisabled, bgBtnDisabled, clicksLeft>>

\* reader.onload.  For handleFileSelect the data URL becomes the source of
\* #uploadImage, which starts decoding it, and the preview and the process
\* control are shown; the handler throws when the page holds no #uploadImage.
\* For loadFileToUpload the preview gets a new #uploadImage element.
FileReaderLoad ==
    /\ \E r \in fileReads :
         /\ fileReads' = fileReads \ {r}
         /\ IF r.via = "select"
            THEN IF uploadImg.attached
                 THEN /\ uploadImg' = [uploadImg EXCEPT !.src = r.file,
                                                        !.complete = FALSE]
                      /\ previewVisible' = TRUE
                      /\ processBtnVisible' = TRUE
                      /\ UNCHANGED <<detached, timers>>
                 ELSE UNCHANGED <<uploadImg, previewVisible, processBtnVisible,
                                  detached, timers>>
            ELSE /\ detached' = detached \cup
                       Detach(uploadImg, timers, [at |-> "load", n |-> r.n])
                 /\ uploadImg' = [attached |-> TRUE, src |-> r.file,
                                  complete |-> FALSE, natural |-> NoFile]
                 /\ timers' = 0
                 /\ processBtnVisible' = TRUE
                 /\ UNCHANGED previewVisible
    /\ UNCHANGED <<batchSide, errorEl, chosen, uploadedImageDimensions,
                   downloads, artifacts, resultView, calls, history,
                   currentModel, processBtnDisabled, bgBtnDisabled, clicksLeft>>

\* uploadImg.onload: the image is decoded; the capture of its dimensions is
\* delayed by a timer
ImgLoaded ==
    /\ uploadImg.attached
    /\ ~uploadImg.complete
    /\ uploadImg' = [uploadImg EXCEPT !.complete = TRUE, !.natural = uploadImg.src]
    /\ timers' = timers + 1
    /\ UNCHANGED <<batchSide, errorEl, chosen, detached, previewVisible,
                   processBtnVisible, uploadedImageDimensions, loads, artifacts,
                   resultView, calls, history, currentModel, processBtnDisabled,
                   bgBtnDisabled, clicksLeft>>

\* the timer fires: the dimensions of the element it was set for are
\* captured, if that element is decoded
updateDimensions ==
    /\ timers > 0
    /\ timers' = timers - 1
    /\ uploadedImageDimensions' =
          Captured(uploadImg, previewVisible, uploadedImageDimensions)
    /\ UNCHANGED <<batchSide, errorEl, chosen, uploadImg, detached,
                   previewVisible, processBtnVisible, loads, artifacts,
                   resultView, calls, history, currentModel, processBtnDisabled,
                   bgBtnDisabled, clicksLeft>>

\* the load event of an element that left the page
DetachedLoaded ==
    /\ \E e \in detached :
         /\ ~e.complete
         /\ detached' = (detached \ {e}) \cup
               {[e EXCEPT !.complete = TRUE, !.natural = e.src,
                          !.timers = e.timers + 1]}
    /\ UNCHANGED <<batchSide, errorEl, chosen, uploadImg, timers, previewVisible,
                   processBtnVisible, uploadedImageDimensions, loads, artifacts,
                   resultView, calls, history, currentModel, processBtnDisabled,
                   bgBtnDisabled, clicksLeft>>

\* a timer of an element that left the page fires
DetachedTimer ==
    /\ \E e \in detached :
         /\ e.timers > 0
         /\ detached' = (detached \ {e}) \cup
               (IF e.complete /\ e.timers = 1 THEN {}
                ELSE {[e EXCEPT !.timers = e.timers - 1]})
         /\ uploadedImageDimensions' =
               Captured(e, previewVisible, uploadedImageDimensions)
    /\ UNCHANGED <<batchSide, errorEl, chosen, uploadImg, timers, previewVisible,
                   processBtnVisible, loads, artifacts, resultView, calls,
                   history, currentModel, processBtnDisabled, bgBtnDisabled,
                   clicksLeft>>

\* click on the remove control of the preview
clearUpload ==
    /\ previewVisible
    /\ uploadImg.attached
    /\ currentFile' = NoFile
    /\ currentFileSource' = <<>>
    /\ uploadedImageDimensions' = <<>>
    /\ previewVisible' = FALSE
    /\ processBtnVisible' = FALSE
    /\ editBtnsVisible' = FALSE
    /\ processedImageBlob' = <<>>
    /\ backgroundImage' = <<>>
    /\ UNCHANGED <<batchSide, errorEl, uploadImg, detached, timers, loads,
                   processedImage, processedImg, reportedSize, calls, history,
                   currentModel, processBtnDisabled, bgBtnDisabled, clicksLeft>>

\* the values #modelSelect can take
ModelOptions == Models \cup {NoModel}

\* change of #modelSelect
setCurrentModel ==
    /\ clicksLeft > 0
    /\ clicksLeft' = clicksLeft - 1
    /\ \E model \in ModelOptions :
         /\ model # currentModel
         /\ currentModel' = model
    /\ UNCHANGED <<batchSide, errorEl, chosen, preview, loads, artifacts,
                   resultView, calls, history, processBtnDisabled,
                   bgBtnDisabled>>

\* this mutant checks the file only
ValidationErrorFileOnly(file, model, keys) ==
    IF file = NoFile THEN <<"no_image">> ELSE <<>>

\* the checks at the head of processImage, <<>> when they pass
ValidationError(file, model, keys) ==
    IF file = NoFile THEN <<"no_image">>
    ELSE IF model = NoModel THEN <<"no_model">>
    ELSE IF KeyRequired(keys, model) THEN <<"no_api_key">>
    ELSE <<>>

ProcessClickable ==
    /\ processBtnVisible
    /\ ~processBtnDisabled
    /\ clicksLeft > 0
    /\ \E i \in Slots : proc[i].pc = "idle"

\* click on the process control; a check fails and nothing is sent
ProcessRejected ==
    /\ ProcessClickable
    /\ clicksLeft' = clicksLeft - 1
    /\ ValidationError(currentFile, currentModel, apiKeys) # <<>>
    /\ errorEl' = <<Msg("error", ValidationError(currentFile, currentModel,
                                                 apiKeys)[1])>>
    /\ UNCHANGED <<batchSide, chosen, preview, loads, artifacts, resultView,
                   calls, history, currentModel, processBtnDisabled,
                   bgBtnDisabled>>

\* this mutant appends the apiKey field whatever the stored key is
ProcessRequestAlwaysKey(file, model, apiKey) ==
    [image |-> file, model |-> model, apiKey |-> <<model>>]

\* the FormData ImageProcessor.processImage posts to /api/process; the apiKey
\* field is appended only for a stored key
ProcessRequest(file, model, apiKey) ==
    [image |-> file, model |-> model, apiKey |-> apiKey]

\* click on the process control; the checks pass, the control is disabled
\* and the current file is sent to /api/process
ProcessStart ==
    /\ ProcessClickable
    /\ clicksLeft' = clicksLeft - 1
    /\ ValidationError(currentFile, currentModel, apiKeys) = <<>>
    /\ processBtnDisabled' = TRUE
    /\ LET i == CHOOSE j \in Slots :
                  proc[j].pc = "idle" /\ \A k \in Slots : proc[k].pc = "idle" => j <= k
       IN proc' = [proc EXCEPT ![i] =
                     [IdleProc EXCEPT
                        !.pc = "process",
                        !.file = currentFile,
                        !.request = <<ProcessRequest(currentFile, currentModel,
                                         getApiKey(apiKeys, currentModel))>>]]
    /\ UNCHANGED <<batchSide, errorEl, chosen, preview, loads, artifacts,
                   resultView, resizes, bgCall, history, currentModel,
                   bgBtnDisabled>>

\* this mutant answers with the cutout of the file that is current now
CutoutOfCurrent(request) == currentFile

\* what /api/process answers to a request: the cutout of the image it carried
CutoutOf(request) == request.image

\* this mutant stores the pre-template artifact as soon as /api/process
\* answered
ProcessReturnedStoresBlob(i) ==
    /\ proc[i].pc = "process"
    /\ LET size == TemplateSize(uploadImg, uploadedImageDimensions, previewVisible)
       IN /\ templateCall' = <<[image |-> CutoutOf(proc[i].request[1]),
                                width |-> size.w, height |-> size.h,
                                selected |-> currentFile]>>
          /\ proc' = [proc EXCEPT ![i].pc = "template", ![i].request = <<>>,
                                  ![i].width = size.w, ![i].height = size.h]
    /\ processedImageBlob' = <<CutoutOf(proc[i].request[1])>>
    /\ UNCHANGED <<batchSide, errorEl, chosen, preview, loads, processedImage,
                   backgroundImage, resultView, resizes, bgCall, uploads,
                   lastResolution, lastSave, currentModel,
                   processBtnDisabled, bgBtnDisabled, clicksLeft>>

\* /api/process answered: the template size is computed from what the page
\* holds now, and placeOnTemplate is called with the answer
ProcessReturned(i) ==
    /\ proc[i].pc = "process"
    /\ LET size == TemplateSize(uploadImg, uploadedImageDimensions, previewVisible)
       IN /\ templateCall' = <<[image |-> CutoutOf(proc[i].request[1]),
                                width |-> size.w, height |-> size.h,
                                selected |-> currentFile]>>
          /\ proc' = [proc EXCEPT ![i].pc = "template", ![i].request = <<>>,
                                  ![i].width = size.w, ![i].height = size.h]
    /\ UNCHANGED <<batchSide, errorEl, chosen, preview, loads, artifacts,
                   resultView, resizes, bgCall, uploads, lastResolution,
                   lastSave, currentModel,
                   processBtnDisabled, bgBtnDisabled, clicksLeft>>

\* one of the two remote calls fails: the catch block
ProcessFailed(i) ==
    /\ proc[i].pc \in {"process", "template"}
    /\ proc' = [proc EXCEPT ![i] = IdleProc]
    /\ processBtnDisabled' = FALSE
    /\ errorEl' = <<Msg("error", proc[i].pc)>>
    /\ UNCHANGED <<batchSide, chosen, preview, loads, artifacts, resultView,
                   resizes, bgCall, history, currentModel, bgBtnDisabled,
                   clicksLeft>>

\* /api/place-template answered: the result is displayed, the controls of a
\* result are shown and both artifacts are stored; the automatic save starts
\* when the current file came from remote storage, else processImage ends
TemplateReturned(i) ==
    /\ proc[i].pc = "template"
    /\ processedImg' = [pending |-> TRUE,
                        onload |-> <<[w |-> proc[i].width, h |-> proc[i].height]>>]
    /\ editBtnsVisible' = TRUE
    /\ lastResolution' = <<>>
    /\ lastSave' = <<>>
    /\ processedImage' = <<[of |-> proc[i].file, width |-> proc[i].width,
                            height |-> proc[i].height]>>
    /\ processedImageBlob' = <<proc[i].file>>
    /\ IF IsYandex(currentFileSource)
       THEN /\ proc' = [proc EXCEPT ![i].pc = "saveAuth"]
            /\ UNCHANGED processBtnDisabled
       ELSE /\ proc' = [proc EXCEPT ![i] = IdleProc]
            /\ processBtnDisabled' = FALSE
    /\ UNCHANGED <<batchSide, errorEl, chosen, preview, loads, backgroundImage,
                   reportedSize, resizes, bgCall, templateCall, uploads,
                   currentModel,
                   bgBtnDisabled, clicksLeft>>

\* how the save that slot i decided went on
SaveState(last, i, state, path) ==
    IF last # <<>> /\ last[1].slot = i
    THEN <<[last[1] EXCEPT !.state = state, !.path = path]>>
    ELSE last

\* saveProcessedToYandex returned or its failure was swallowed: processImage
\* ends with showLoading(false)
SaveEnds(i) ==
    /\ proc' = [proc EXCEPT ![i] = IdleProc]
    /\ processBtnDisabled' = FALSE

\* checkAuth answered.  Without a token, with a source that is no longer
\* remote storage or with a folderUrl that holds no "/d/<id>" the save is
\* given up; else the folder of the processed files, "/<id>/Processed" split
\* at its slashes, is created
SaveAuthReturned(i) ==
    /\ proc[i].pc = "saveAuth"
    /\ \E token \in BOOLEAN :
         IF token /\ IsYandex(currentFileSource)
                  /\ FolderIdOf(currentFileSource[1].folderUrl) # <<>>
         THEN /\ proc' = [proc EXCEPT
                    ![i].pc = "saveFolder",
                    ![i].folder = FolderIdOf(currentFileSource[1].folderUrl)
                                     \o <<"Processed">>]
              /\ lastSave' = <<[slot |-> i, source |-> currentFileSource,
                                token |-> token, state |-> "running",
                                path |-> <<>>]>>
              /\ UNCHANGED processBtnDisabled
         ELSE /\ SaveEnds(i)
              /\ lastSave' = <<[slot |-> i, source |-> currentFileSource,
                                token |-> token, state |-> "skipped",
                                path |-> <<>>]>>
    /\ UNCHANGED <<batchSide, errorEl, chosen, preview, loads, artifacts,
                   resultView, resizes, bgCall, templateCall, uploads,
                   lastResolution, currentModel,
                   bgBtnDisabled, clicksLeft>>

\* createFolder answered or failed, which is ignored: the upload path is made
\* from the file name of the current source; reading it throws when the
\* source was cleared meanwhile
SaveFolderReturned(i) ==
    /\ proc[i].pc = "saveFolder"
    /\ IF currentFileSource # <<>>
       THEN /\ proc' = [proc EXCEPT
                  ![i].pc = "saveUpload",
                  ![i].path = <<[folder |-> proc[i].folder,
                                 name |-> PngName(currentFileSource[1].fileName)]>>]
            /\ UNCHANGED <<processBtnDisabled, lastSave>>
       ELSE /\ SaveEnds(i)
            /\ lastSave' = SaveState(lastSave, i, "failed", <<>>)
    /\ UNCHANGED <<batchSide, errorEl, chosen, preview, loads, artifacts,
                   resultView, resizes, bgCall, templateCall, uploads,
                   lastResolution, currentModel,
                   bgBtnDisabled, clicksLeft>>

\* uploadFile answered: the templated artifact of this invocation is stored
\* under the path and a notice is shown
SaveUploaded(i) ==
    /\ proc[i].pc = "saveUpload"
    /\ uploads' = uploads \cup
          {[path |-> proc[i].path[1],
            blob |-> [of |-> proc[i].file, width |-> proc[i].width,
                      height |-> proc[i].height]]}
    /\ errorEl' = <<Msg("success", "saved")>>
    /\ lastSave' = SaveState(lastSave, i, "uploaded", proc[i].path)
    /\ SaveEnds(i)
    /\ UNCHANGED <<batchSide, chosen, preview, loads, artifacts, resultView,
                   resizes, bgCall, templateCall, lastResolution,
                   currentModel, bgBtnDisabled, clicksLeft>>

\* this mutant lets the failure reach the catch block of processImage
SaveUploadFailedShown(i) ==
    /\ proc[i].pc = "saveUpload"
    /\ lastSave' = SaveState(lastSave, i, "failed", <<>>)
    /\ SaveEnds(i)
    /\ errorEl' = <<Msg("error", "saveUpload")>>
    /\ UNCHANGED <<batchSide, chosen, preview, loads, artifacts,
                   resultView, resizes, bgCall, templateCall, uploads,
                   lastResolution, currentModel, bgBtnDisabled, clicksLeft>>

\* uploadFile failed: the catch block of saveProcessedToYandex
SaveUploadFailed(i) ==
    /\ proc[i].pc = "saveUpload"
    /\ lastSave' = SaveState(lastSave, i, "failed", <<>>)
    /\ SaveEnds(i)
    /\ UNCHANGED <<batchSide, errorEl, chosen, preview, loads, artifacts,
                   resultView, resizes, bgCall, templateCall, uploads,
                   lastResolution, currentModel,
                   bgBtnDisabled, clicksLeft>>

\* the load event of #processedImage: the handler processImage installed
\* writes the size that invocation used
ProcessedImgLoaded ==
    /\ processedImg.pending
    /\ processedImg' = [processedImg EXCEPT !.pending = FALSE]
    /\ reportedSize' = processedImg.onload
    /\ UNCHANGED <<batchSide, errorEl, chosen, preview, loads, artifacts,
                   editBtnsVisible, calls, history, currentModel,
                   processBtnDisabled, bgBtnDisabled, clicksLeft>>

\* the size the resolution control asks for
ResolutionSizes == {[w |-> 1200, h |-> 1600]}

\* click on the resolution control: changeResolution(width, height) up to its
\* call of placeOnTemplate
changeResolution(width, height) ==
    /\ editBtnsVisible
    /\ clicksLeft > 0
    /\ clicksLeft' = clicksLeft - 1
    /\ IF processedImageBlob = <<>>
       THEN UNCHANGED <<resizes, processBtnDisabled, lastResolution>>
       ELSE /\ processBtnDisabled' = TRUE
            /\ resizes' = resizes \cup
                  {[n |-> clicksLeft, image |-> processedImageBlob[1],
                    width |-> width, height |-> height]}
            /\ lastResolution' =
                  <<[n |-> clicksLeft, image |-> processedImageBlob[1],
                     width |-> width, height |-> height, done |-> FALSE]>>
    /\ UNCHANGED <<batchSide, errorEl, chosen, preview, loads, artifacts,
                   resultView, proc, bgCall, templateCall, uploads, lastSave,
                   currentModel,
                   bgBtnDisabled>>

\* this mutant drops the pre-template artifact once it was used
ResolutionReturnedDropsBlob ==
    /\ \E r \in resizes :
         /\ resizes' = resizes \ {r}
         /\ processedImage' = <<[of |-> r.image, width |-> r.width,
                                 height |-> r.height]>>
         /\ processedImageBlob' = <<>>
         /\ reportedSize' = <<[w |-> r.width, h |-> r.height]>>
         /\ lastResolution' =
               IF lastResolution # <<>> /\ lastResolution[1].n = r.n
               THEN <<[lastResolution[1] EXCEPT !.done = TRUE]>>
               ELSE lastResolution
    /\ processedImg' = [processedImg EXCEPT !.pending = TRUE]
    /\ processBtnDisabled' = FALSE
    /\ UNCHANGED <<batchSide, errorEl, chosen, preview, loads,
                   backgroundImage, editBtnsVisible, proc,
                   bgCall, templateCall, uploads, lastSave, currentModel,
                   bgBtnDisabled,
                   clicksLeft>>

\* placeOnTemplate answered changeResolution: the new composite is displayed
\* and stored, and the size asked for is written
ResolutionReturned ==
    /\ \E r \in resizes :
         /\ resizes' = resizes \ {r}
         /\ processedImage' = <<[of |-> r.image, width |-> r.width,
                                 height |-> r.height]>>
         /\ reportedSize' = <<[w |-> r.width, h |-> r.height]>>
         /\ lastResolution' =
               IF lastResolution # <<>> /\ lastResolution[1].n = r.n
               THEN <<[lastResolution[1] EXCEPT !.done = TRUE]>>
               ELSE lastResolution
    /\ processedImg' = [processedImg EXCEPT !.pending = TRUE]
    /\ processBtnDisabled' = FALSE
    /\ UNCHANGED <<batchSide, errorEl, chosen, preview, loads,
                   processedImageBlob, backgroundImage, editBtnsVisible, proc,
                   bgCall, templateCall, uploads, lastSave, currentModel,
                   bgBtnDisabled,
                   clicksLeft>>

\* placeOnTemplate failed changeResolution: the catch block
ResolutionFailed ==
    /\ \E r \in resizes :
         /\ resizes' = resizes \ {r}
         /\ lastResolution' =
               IF lastResolution # <<>> /\ lastResolution[1].n = r.n
               THEN <<>>
               ELSE lastResolution
    /\ errorEl' = <<Msg("error", "resolution")>>
    /\ processBtnDisabled' = FALSE
    /\ UNCHANGED <<batchSide, chosen, preview, loads, artifacts, resultView,
                   proc, bgCall, templateCall, uploads, lastSave,
                   currentModel, bgBtnDisabled,
                   clicksLeft>>

\* click on the background control: placeOnBackground up to its fetch of
\* /api/place-on-background, which carries the templated artifact
placeOnBackground ==
    /\ editBtnsVisible
    /\ ~bgBtnDisabled
    /\ clicksLeft > 0
    /\ clicksLeft' = clicksLeft - 1
    /\ IF processedImage = <<>>
       THEN UNCHANGED <<bgCall, bgBtnDisabled>>
       ELSE /\ bgBtnDisabled' = TRUE
            /\ bgCall' = <<[processedImage |-> processedImage[1]]>>
    /\ UNCHANGED <<batchSide, errorEl, chosen, preview, loads, artifacts,
                   resultView, proc, resizes, history, currentModel,
                   processBtnDisabled>>

\* /api/place-on-background answered: the result is stored
BackgroundReturned ==
    /\ bgCall # <<>>
    /\ backgroundImage' = <<[on |-> bgCall[1].processedImage]>>
    /\ bgCall' = <<>>
    /\ bgBtnDisabled' = FALSE
    /\ UNCHANGED <<batchSide, errorEl, chosen, preview, loads, processedImage,
                   processedImageBlob, resultView, proc, resizes, history,
                   currentModel, processBtnDisabled, clicksLeft>>

\* this mutant leaves the background control disabled after a failure
BackgroundFailedStaysDisabled ==
    /\ bgCall # <<>>
    /\ bgCall' = <<>>
    /\ errorEl' = <<Msg("error", "background")>>
    /\ UNCHANGED <<batchSide, chosen, preview, loads, artifacts, resultView,
                   proc, resizes, history, currentModel, processBtnDisabled,
                   bgBtnDisabled, clicksLeft>>

\* /api/place-on-background failed: the catch block
BackgroundFailed ==
    /\ bgCall # <<>>
    /\ bgCall' = <<>>
    /\ bgBtnDisabled' = FALSE
    /\ errorEl' = <<Msg("error", "background")>>
    /\ UNCHANGED <<batchSide, chosen, preview, loads, artifacts, resultView,
                   proc, resizes, history, currentModel, processBtnDisabled,
                   clicksLeft>>

NextImage ==
    \/ SelectRejected
    \/ handleFileSelect
    \/ selectFileFromSidebar
    \/ loadFileToUpload
    \/ DownloadDone
    \/ DownloadFailed
    \/ FileReaderLoad
    \/ ImgLoaded
    \/ updateDimensions
    \/ DetachedLoaded
    \/ DetachedTimer
    \/ clearUpload
    \/ setCurrentModel
    \/ ProcessRejected
    \/ ProcessStart
    \/ \E i \in Slots : ProcessReturned(i)
    \/ \E i \in Slots : ProcessFailed(i)
    \/ \E i \in Slots : TemplateReturned(i)
    \/ \E i \in Slots : SaveAuthReturned(i)
    \/ \E i \in Slots : SaveFolderReturned(i)
    \/ \E i \in Slots : SaveUploaded(i)
    \/ \E i \in Slots : SaveUploadFailed(i)
    \/ ProcessedImgLoaded
    \/ \E size \in ResolutionSizes : changeResolution(size.w, size.h)
    \/ ResolutionReturned
    \/ ResolutionFailed
    \/ placeOnBackground
    \/ BackgroundReturned
    \/ BackgroundFailed

SpecImage == InitImage /\ [][NextImage]_vars

SpecLoaded == InitLoaded /\ [][NextImage]_vars

\* the page after the file of InitLoaded was processed and its result was
\* displayed and measured
InitProcessed ==
    /\ InitApp
    /\ currentModel = "replicate"
    /\ detached = {}
    /\ processBtnDisabled = FALSE
    /\ editBtnsVisible = TRUE
    /\ bgBtnDisabled = FALSE
    /\ fileReads = {}
    /\ downloads = {}
    /\ timers = 0
    /\ proc = [i \in Slots |-> IdleProc]
    /\ processedImage = <<[of |-> "A", width |-> 2000, height |-> 1500]>>
    /\ processedImageBlob = <<"A">>
    /\ backgroundImage = <<>>
    /\ processedImg = [pending |-> FALSE, onload |-> <<[w |-> 2000, h |-> 1500]>>]
    /\ reportedSize = <<[w |-> 2000, h |-> 1500]>>
    /\ resizes = {}
    /\ bgCall = <<>>
    /\ templateCall = <<[image |-> "A", width |-> 2000, height |-> 1500,
                         selected |-> "A"]>>
    /\ uploads = {}
    /\ lastResolution = <<>>
    /\ lastSave = <<>>
    /\ currentFile = "A"
    /\ currentFileSource = <<>>
    /\ uploadImg = [attached |-> TRUE, src |-> "A", complete |-> TRUE,
                    natural |-> "A"]
    /\ uploadedImageDimensions =
          <<[width |-> 4005, height |-> 3004,
             naturalWidth |-> 2000, naturalHeight |-> 1500]>>
    /\ previewVisible = TRUE
    /\ processBtnVisible = TRUE
    /\ clicksLeft = MaxClicks
    /\ callsLeft = 0
    /\ NoAuth
    /\ NoRecent
    /\ body = StartBody
    /\ cuts = {}
    /\ apiKeys = {}
    /\ batchModelSelect = "fal"
    /\ startsLeft = 0

SpecProcessed == InitProcessed /\ [][NextImage]_vars

----------------------------------------------------------------------------
(* YandexDiskManager: the methods that fetch the storage proxy *)

\* the paths the methods are called with
Paths == {"x", "y"}
NoPath == ""

\* the calls a caller can make: the methods with a path, a url or a
\* folder as argument, and the methods without one
ClientCalls ==
    ({"getFolderFiles", "downloadFile", "uploadFile", "createFolder",
      "getPublicFiles", "getStructure", "downloadPublicFile"} \X Paths)
    \cup ({"getFolders", "getAccountInfo"} \X {NoPath})

\* what fetch() settles with: a rejection, or a response with a status and
\* a body.  A body is "data" (the JSON of a successful answer), "detail"
\* (JSON with a detail field), "object" (JSON without one), "text" (bytes
\* that are not JSON), "bytes" (the content of a file) or "none" (no byte)
NetworkFailure == [kind |-> "failed", status |-> 0, body |-> "none"]
Response(status, content) ==
    [kind |-> "response", status |-> status, body |-> content]

\* response.ok
Ok(response) == response.status \in 200..299

\* response.json() resolves
IsJson(content) == content \in {"data", "detail", "object"}

\* what a method hands to its caller
Returned(value) == [kind |-> "returned", value |-> value]
Threw(text, status) == [kind |-> "thrown", text |-> text, status |-> status]

\* the values returned: a list, a Blob, a parsed JSON object, and the
\* object literal createFolder builds for a folder that exists
List(items) == [is |-> "list", items |-> items]
Blob(content) == [is |-> "blob", body |-> content]
Object(content) == [is |-> "object", body |-> content]
Exists(folderPath) ==
    [is |-> "object", body |-> "exists", success |-> TRUE, path |-> folderPath,
     exists |-> TRUE]

\* data.folders || [], data.files || []
Items(content) == IF content = "data" THEN <<"item">> ELSE <<>>

\* a rejected fetch and a failed response.json() reach the catch block
NetworkError == Threw("network", 0)
SyntaxError == Threw("not_json", 0)

\* getFolders: the status is not looked at, and the catch block returns []
getFolders(fetched) ==
    IF fetched.kind = "failed" \/ ~IsJson(fetched.body)
    THEN Returned(List(<<>>))
    ELSE Returned(List(Items(fetched.body)))

\* getFolderFiles: the same
getFolderFiles(fetched) ==
    IF fetched.kind = "failed" \/ ~IsJson(fetched.body)
    THEN Returned(List(<<>>))
    ELSE Returned(List(Items(fetched.body)))

\* this mutant does not look at the size of the blob
downloadFileAnySize(fetched) ==
    IF fetched.kind = "failed" THEN NetworkError
    ELSE IF ~Ok(fetched)
    THEN Threw("Failed to download file", fetched.status)
    ELSE Returned(Blob(fetched.body))

\* downloadFile: a status that is not OK and a blob of size 0 throw
downloadFile(fetched) ==
    IF fetched.kind = "failed" THEN NetworkError
    ELSE IF ~Ok(fetched)
    THEN Threw("Failed to download file", fetched.status)
    ELSE IF fetched.body = "none"
    THEN Threw("Downloaded file is empty", 0)
    ELSE Returned(Blob(fetched.body))

\* uploadFile: the status is not looked at, the parsed body is returned
uploadFile(fetched) ==
    IF fetched.kind = "failed" THEN NetworkError
    ELSE IF ~IsJson(fetched.body) THEN SyntaxError
    ELSE Returned(Object(fetched.body))

\* errorData.detail || fallback, where errorData is the parsed body or, when
\* the body is not JSON, { detail: `HTTP ${response.status}` }
ErrorOf(response, fallback) ==
    IF response.body = "detail" THEN Threw("detail", 0)
    ELSE IF IsJson(response.body) THEN Threw(fallback, response.status)
    ELSE Threw("HTTP", response.status)

\* this mutant treats 409 as every other status that is not OK
createFolderNoConflict(fetched, folderPath) ==
    IF fetched.kind = "failed" THEN NetworkError
    ELSE IF ~Ok(fetched) THEN ErrorOf(fetched, "HTTP")
    ELSE IF ~IsJson(fetched.body) THEN SyntaxError
    ELSE Returned(Object(fetched.body))

\* createFolder: 409 is answered with the object literal, every other
\* status that is not OK throws
createFolder(fetched, folderPath) ==
    IF fetched.kind = "failed" THEN NetworkError
    ELSE IF ~Ok(fetched)
    THEN IF fetched.status = 409
         THEN Returned(Exists(folderPath))
         ELSE ErrorOf(fetched, "HTTP")
    ELSE IF ~IsJson(fetched.body) THEN SyntaxError
    ELSE Returned(Object(fetched.body))

\* getPublicFiles
getPublicFiles(fetched) ==
    IF fetched.kind = "failed" THEN NetworkError
    ELSE IF ~Ok(fetched) THEN ErrorOf(fetched, "status")
    ELSE IF ~IsJson(fetched.body) THEN SyntaxError
    ELSE Returned(List(Items(fetched.body)))

\* getStructure
getStructure(fetched) ==
    IF fetched.kind = "failed" THEN NetworkError
    ELSE IF ~Ok(fetched) THEN ErrorOf(fetched, "status")
    ELSE IF ~IsJson(fetched.body) THEN SyntaxError
    ELSE Returned(Object(fetched.body))

\* getAccountInfo
getAccountInfo(fetched) ==
    IF fetched.kind = "failed" THEN NetworkError
    ELSE IF ~Ok(fetched) THEN ErrorOf(fetched, "status")
    ELSE IF ~IsJson(fetched.body) THEN SyntaxError
    ELSE Returned(Object(fetched.body))

\* downloadPublicFile: the status is not looked at
downloadPublicFile(fetched) ==
    IF fetched.kind = "failed" THEN NetworkError
    ELSE Returned(Blob(fetched.body))

\* the outcome of a call, given what its fetch settled with
Outcome(call, fetched) ==
    CASE call.method = "getFolders" -> getFolders(fetched)
      [] call.method = "getFolderFiles" -> getFolderFiles(fetched)
      [] call.method = "downloadFile" -> downloadFile(fetched)
      [] call.method = "uploadFile" -> uploadFile(fetched)
      [] call.method = "createFolder" -> createFolder(fetched, call.path)
      [] call.method = "getPublicFiles" -> getPublicFiles(fetched)
      [] call.method = "getStructure" -> getStructure(fetched)
      [] call.method = "getAccountInfo" -> getAccountInfo(fetched)
      [] call.method = "downloadPublicFile" -> downloadPublicFile(fetched)

\* the statuses and bodies of the proxy's error answers
ErrorStatuses == {401, 500}
ErrorBodies == {"detail", "object", "text"}

\* how a call can fail: the fetch is rejected or the proxy answers with an
\* error status
Failures ==
    {NetworkFailure} \cup
    {Response(status, content) : status \in ErrorStatuses,
                                  content \in ErrorBodies}

\* how the storage answers a call it accepts: a folder is created unless it
\* exists, which is a conflict; a file is sent, which may hold no byte; every
\* other endpoint sends its JSON
Accepted(call, folders) ==
    IF call.method = "createFolder"
    THEN IF call.path \in folders
         THEN {Response(409, content) : content \in {"detail", "text"}}
         ELSE {Response(201, "data")}
    ELSE IF call.method \in {"downloadFile", "downloadPublicFile"}
    THEN {Response(200, "bytes"), Response(200, "none")}
    ELSE {Response(200, "data")}

\* a method of the client is called: it fetches its endpoint
ClientCalled ==
    /\ clientCall = <<>>
    /\ callsLeft > 0
    /\ callsLeft' = callsLeft - 1
    /\ \E c \in ClientCalls :
         clientCall' = <<[method |-> c[1], path |-> c[2]]>>
    /\ UNCHANGED <<storage, lastCall>>
    /\ UNCHANGED <<body, cuts, apiKeys, batchModelSelect, startsLeft,
                   recentFolders, image, recent, auth, folderJob, shared,
                   run>>

\* the storage accepts the call and the method ends
ClientAnswered ==
    /\ clientCall # <<>>
    /\ \E fetched \in Accepted(clientCall[1], storage) :
         /\ lastCall' = <<[call |-> clientCall[1], fetched |-> fetched,
                           outcome |-> Outcome(clientCall[1], fetched)]>>
         /\ storage' = IF fetched.status = 201
                       THEN storage \cup {clientCall[1].path}
                       ELSE storage
    /\ clientCall' = <<>>
    /\ UNCHANGED callsLeft
    /\ UNCHANGED <<body, cuts, apiKeys, batchModelSelect, startsLeft,
                   recentFolders, image, recent, auth, folderJob, shared,
                   run>>

\* the call fails and the method ends
ClientFailed ==
    /\ clientCall # <<>>
    /\ \E fetched \in Failures :
         lastCall' = <<[call |-> clientCall[1], fetched |-> fetched,
                        outcome |-> Outcome(clientCall[1], fetched)]>>
    /\ clientCall' = <<>>
    /\ UNCHANGED <<storage, callsLeft>>
    /\ UNCHANGED <<body, cuts, apiKeys, batchModelSelect, startsLeft,
                   recentFolders, image, recent, auth, folderJob, shared,
                   run>>

NextClient ==
    \/ ClientCalled
    \/ ClientAnswered
    \/ ClientFailed

\* no batch run and no image; the methods of the client are called one
\* after the other
InitClient ==
    /\ InitApp
    /\ InitImageState
    /\ clicksLeft = 0
    /\ callsLeft = MaxCalls
    /\ NoAuth
    /\ NoRecent
    /\ body = StartBody
    /\ cuts = {}
    /\ apiKeys = {}
    /\ batchModelSelect = "fal"
    /\ startsLeft = 0

SpecClient == InitClient /\ [][NextClient]_vars

----------------------------------------------------------------------------
(* The list of the recent folders: addRecentFolder as it is called with a *)
(* time, and refreshRecentFolders                                         *)

\* the folders of the storage that hold processed files, in the order a walk
\* from the root finds them; one more than the list may hold
DiskNames ==
    <<"d01", "d02", "d03", "d04", "d05", "d06", "d07", "d08", "d09", "d10",
      "d11", "d12", "d13", "d14", "d15", "d16", "d17", "d18", "d19", "d20",
      "d21">>

\* name and path of the folder of processed files inside a folder of the
\* root, as the batch run and the walk both build them
FolderOf(parentName) ==
    [name |-> parentName \o ProcessedSuffix,
     path |-> "/" \o parentName \o ProcessedSuffix]

\* the folder of the same name inside another folder
NestedFolderOf(parentName) ==
    [name |-> parentName \o ProcessedSuffix,
     path |-> "/x/" \o parentName \o ProcessedSuffix]

\* { ...folderInfo, timestamp: new Date().toISOString() }
Stamp(folderInfo, time) ==
    [name |-> folderInfo.name, path |-> folderInfo.path,
     files_processed |-> folderInfo.files_processed, timestamp |-> time]

\* a folderInfo as startBatchProcessing builds it
Info(folder, files) ==
    [name |-> folder.name, path |-> folder.path, files_processed |-> files]

\* the list localStorage holds after n folders were added one after the
\* other at the times 1..n
Stored(n) ==
    [k \in 1..n |-> Stamp(Info(FolderOf(DiskNames[n + 1 - k]), 1), n + 1 - k)]

\* the first n folders of the storage
Disk(n) == [k \in 1..n |-> FolderOf(DiskNames[k])]

\* the folderInfos addRecentFolder is called with: two folders that are new
\* to a stored list, one of them with two results, a folder with the name
\* of one and another path, and the folder added first
RecentInputs ==
    {Info(FolderOf(DiskNames[MaxRecentFolders]), 1),
     Info(FolderOf(DiskNames[MaxRecentFolders]), 2),
     Info(FolderOf(DiskNames[MaxRecentFolders + 1]), 1),
     Info(NestedFolderOf(DiskNames[MaxRecentFolders]), 1),
     Info(FolderOf(DiskNames[1]), 3)}

\* this.recentFolders.find(pred), <<>> when it finds none
Find(list, pred(_)) ==
    LET hits == {n \in 1..Len(list) : pred(list[n])}
    IN IF hits = {} THEN <<>>
       ELSE <<list[CHOOSE n \in hits : \A m \in hits : n <= m]>>

\* the record findProcessedFoldersRecursive pushes for a folder it finds;
\* among paths of folders of processed files of equal depth its lookup of
\* the saved record comes down to the equality of the paths
FoundFolder(item, list, time) ==
    LET samePath(f) == f.path = item.path
        savedInfo == Find(list, samePath)
    IN [name |-> item.name, path |-> item.path,
        files_processed |-> IF savedInfo # <<>>
                            THEN savedInfo[1].files_processed ELSE 0,
        timestamp |-> IF savedInfo # <<>> THEN savedInfo[1].timestamp ELSE time]

\* updatedFolders of refreshRecentFolders: one record for each folder found
Refreshed(found, list, time) ==
    [k \in 1..Len(found) |->
       LET foundFolder == FoundFolder(found[k], list, time)
           sameFolder(f) == f.path = foundFolder.path \/ f.name = foundFolder.name
           savedInfo == Find(list, sameFolder)
       IN IF savedInfo # <<>>
          THEN [savedInfo[1] EXCEPT !.path = foundFolder.path,
                                    !.name = foundFolder.name]
          ELSE foundFolder]

\* addRecentFolder(folderInfo) is called, as at the end of a batch run
AddRecentFolder ==
    /\ addsLeft > 0
    /\ addsLeft' = addsLeft - 1
    /\ clock' = clock + 1
    /\ \E folderInfo \in RecentInputs :
         recentFolders' = addRecentFolder(recentFolders, Stamp(folderInfo, clock'))
    /\ UNCHANGED <<disk, refreshPc>>
    /\ UNCHANGED <<body, cuts, apiKeys, batchModelSelect, startsLeft, image,
                   client, auth, folderJob, shared, run>>

\* click on the refresh control: refreshRecentFolders awaits checkAuth
refreshRecentFolders ==
    /\ refreshPc = "idle"
    /\ addsLeft > 0
    /\ addsLeft' = addsLeft - 1
    /\ refreshPc' = "auth"
    /\ UNCHANGED <<recentFolders, clock, disk>>
    /\ UNCHANGED <<body, cuts, apiKeys, batchModelSelect, startsLeft, image,
                   client, auth, folderJob, shared, run>>

\* checkAuth answered: without a token an error is shown, with one the walk
\* of the storage starts
RefreshAuthReturned ==
    /\ refreshPc = "auth"
    /\ \E token \in BOOLEAN :
         IF token
         THEN refreshPc' = "walk" /\ UNCHANGED errorEl
         ELSE refreshPc' = "idle" /\ errorEl' = <<AuthRequired>>
    /\ UNCHANGED <<recentFolders, clock, disk, addsLeft>>
    /\ UNCHANGED <<body, cuts, apiKeys, batchModelSelect, startsLeft, image,
                   client, auth, folderJob, batchProcessingPaused,
                   batchProcessingStopped,
                   batchProcessingReader, startBtnDisabled, stopBtnVisible,
                   progress, run>>

\* the walk ended, with every folder found or, the listing of the root
\* having failed, with none: the list is replaced by the records of the
\* folders found
RefreshWalked ==
    /\ refreshPc = "walk"
    /\ \E n \in {0, Len(disk)} :
         recentFolders' = Refreshed(SubSeq(disk, 1, n), recentFolders, clock)
    /\ errorEl' = <<Msg("success", "refreshed")>>
    /\ refreshPc' = "idle"
    /\ UNCHANGED <<clock, disk, addsLeft>>
    /\ UNCHANGED <<body, cuts, apiKeys, batchModelSelect, startsLeft, image,
                   client, auth, folderJob, batchProcessingPaused,
                   batchProcessingStopped,
                   batchProcessingReader, startBtnDisabled, stopBtnVisible,
                   progress, run>>

NextRecent ==
    \/ AddRecentFolder
    \/ refreshRecentFolders
    \/ RefreshAuthReturned
    \/ RefreshWalked

\* the page after loadRecentFolders read an empty list or a list of earlier
\* sessions, with few or many folders of processed files on the storage
InitRecent ==
    /\ InitApp
    /\ InitImageState
    /\ clicksLeft = 0
    /\ callsLeft = 0
    /\ NoAuth
    /\ recentFolders \in {<<>>, Stored(MaxRecentFolders - 1)}
    /\ clock = Len(recentFolders)
    /\ disk \in {Disk(2), Disk(MaxRecentFolders + 1)}
    /\ addsLeft = MaxAdds
    /\ body = StartBody
    /\ cuts = {}
    /\ apiKeys = {}
    /\ batchModelSelect = "fal"
    /\ startsLeft = 0

SpecRecent == InitRecent /\ [][NextRecent]_vars

----------------------------------------------------------------------------
(* YandexDiskManager.checkAuth and setAccessToken *)

Tokens == {"t", "u"}

\* what the fetch of /api/yandex/check ends with: a JSON answer with
\* authenticated true, a JSON answer without it, or a rejection of fetch()
\* or of response.json()
CheckAnswers == {"authenticated", "not_authenticated", "failed"}

\* what the fetch of /api/yandex/get-env-token ends with: has_token and
\* valid, has_token alone, neither, or a rejection
EnvAnswers == {"valid", "invalid", "none", "failed"}

\* if (data.has_token && data.valid) return true; else return false
EnvToken(answer) == answer = "valid"

\* a caller awaits checkAuth(): a saved token becomes the access token and
\* is sent to /api/yandex/check; without one the server-side token is asked
\* for
checkAuth ==
    /\ authCall = <<>>
    /\ authsLeft > 0
    /\ authsLeft' = authsLeft - 1
    /\ IF localToken # <<>>
       THEN /\ accessToken' = localToken
            /\ authCall' = <<[pc |-> "check", saved |-> localToken,
                              check |-> "none"]>>
       ELSE /\ UNCHANGED accessToken
            /\ authCall' = <<[pc |-> "env", saved |-> <<>>, check |-> "none"]>>
    /\ UNCHANGED <<localToken, lastAuth>>
    /\ UNCHANGED <<body, cuts, apiKeys, batchModelSelect, startsLeft,
                   recentFolders, image, client, recent, folderJob, shared,
                   run>>

\* the fetch of /api/yandex/check ended: true is returned for an
\* authenticated token, the catch block removes the token, and checkAuth
\* goes on to the server-side token otherwise
CheckAnswered ==
    /\ authCall # <<>>
    /\ authCall[1].pc = "check"
    /\ \E answer \in CheckAnswers :
         IF answer = "authenticated"
         THEN /\ lastAuth' = <<[saved |-> authCall[1].saved, check |-> answer,
                                env |-> "none", result |-> TRUE]>>
              /\ authCall' = <<>>
              /\ UNCHANGED <<localToken, accessToken>>
         ELSE /\ authCall' = <<[authCall[1] EXCEPT !.pc = "env",
                                                    !.check = answer]>>
              /\ UNCHANGED lastAuth
              /\ IF answer = "failed"
                 THEN localToken' = <<>> /\ accessToken' = <<>>
                 ELSE UNCHANGED <<localToken, accessToken>>
    /\ UNCHANGED authsLeft
    /\ UNCHANGED <<body, cuts, apiKeys, batchModelSelect, startsLeft,
                   recentFolders, image, client, recent, folderJob, shared,
                   run>>

\* the fetch of /api/yandex/get-env-token ended and checkAuth returns
EnvAnswered ==
    /\ authCall # <<>>
    /\ authCall[1].pc = "env"
    /\ \E answer \in EnvAnswers :
         lastAuth' = <<[saved |-> authCall[1].saved, check |-> authCall[1].check,
                        env |-> answer, result |-> EnvToken(answer)]>>
    /\ authCall' = <<>>
    /\ UNCHANGED <<localToken, accessToken, authsLeft>>
    /\ UNCHANGED <<body, cuts, apiKeys, batchModelSelect, startsLeft,
                   recentFolders, image, client, recent, folderJob, shared,
                   run>>

\* the authorization window reports a token while no checkAuth is pending
setAccessToken ==
    /\ authCall = <<>>
    /\ authsLeft > 0
    /\ authsLeft' = authsLeft - 1
    /\ \E token \in Tokens :
         /\ accessToken' = <<token>>
         /\ localToken' = <<token>>
    /\ UNCHANGED <<authCall, lastAuth>>
    /\ UNCHANGED <<body, cuts, apiKeys, batchModelSelect, startsLeft,
                   recentFolders, image, client, recent, folderJob, shared,
                   run>>

NextAuth ==
    \/ checkAuth
    \/ CheckAnswered
    \/ EnvAnswered
    \/ setAccessToken

\* the page with or without a token of an earlier session in localStorage
InitAuth ==
    /\ InitApp
    /\ InitImageState
    /\ clicksLeft = 0
    /\ callsLeft = 0
    /\ NoRecent
    /\ localToken \in {<<>>} \cup {<<token>> : token \in Tokens}
    /\ authsLeft = MaxAuths
    /\ body = StartBody
    /\ cuts = {}
    /\ apiKeys = {}
    /\ batchModelSelect = "fal"
    /\ startsLeft = 0

SpecAuth == InitAuth /\ [][NextAuth]_vars

----------------------------------------------------------------------------
(* App.processFolder: the folder loop that runs in the page *)

ImageA == [name |-> "a", image |-> TRUE]
ImageB == [name |-> "b", image |-> TRUE]
Document == [name |-> "n", image |-> FALSE]

\* what getFolderFiles may return; [] also stands for a failed listing
FolderListings == {<<>>, <<Document>>, <<ImageA>>, <<ImageA, Document, ImageB>>}

\* values of #folderSelect
FolderPaths == {"", "/x"}

\* files.filter(f => f.mime_type && f.mime_type.startsWith('image/'))
RECURSIVE ImagesOf(_)
ImagesOf(files) ==
    IF files = <<>> THEN <<>>
    ELSE (IF Head(files).image THEN <<Head(files)>> ELSE <<>>)
         \o ImagesOf(Tail(files))

\* the checks at the head of processFolder, <<>> when they pass
FolderValidationError(folderPath, model, keys) ==
    IF folderPath = "" THEN <<"no_folder">>
    ELSE IF model = NoModel THEN <<"no_model">>
    ELSE IF KeyRequired(keys, model) THEN <<"no_api_key">>
    ELSE <<>>

\* the end of an iteration of `for (const file of imageFiles)`: the next
\* file is downloaded, or the loop ends and the count is shown
NextFile(job) ==
    IF job.at < Len(job.imageFiles)
    THEN [job EXCEPT !.pc = "download", !.at = @ + 1,
                     !.requested = Append(@, job.imageFiles[job.at + 1])]
    ELSE [job EXCEPT !.pc = "done",
                     !.shown = <<[kind |-> "success", processed |-> job.processed,
                                  total |-> Len(job.imageFiles)]>>]

\* this mutant has no try/catch in the loop: the error ends processFolder
CaughtEndsLoop(job) == [job EXCEPT !.pc = "done"]

\* catch (error) { console.error(...) }: the loop goes on
Caught(job) == NextFile(job)

\* processFolder is called: a check fails, or getFolderFiles is awaited
processFolder ==
    /\ folderJob.pc \in {"idle", "done"}
    /\ \E folderPath \in FolderPaths :
         LET error == FolderValidationError(folderPath, currentModel, apiKeys)
         IN folderJob' = IF error # <<>>
                         THEN [IdleFolderJob EXCEPT
                                 !.pc = "done",
                                 !.shown = <<Msg("error", error[1])>>]
                         ELSE [IdleFolderJob EXCEPT !.pc = "files"]
    /\ UNCHANGED <<body, cuts, apiKeys, batchModelSelect, startsLeft,
                   recentFolders, image, client, recent, auth, shared, run>>

\* getFolderFiles returned: without an image an error is shown, else
\* createFolder is awaited
FilesListed ==
    /\ folderJob.pc = "files"
    /\ \E files \in FolderListings :
         folderJob' = IF ImagesOf(files) = <<>>
                      THEN [folderJob EXCEPT
                              !.pc = "done",
                              !.shown = <<Msg("error", "no_images")>>]
                      ELSE [folderJob EXCEPT !.pc = "folder",
                                             !.imageFiles = ImagesOf(files)]
    /\ UNCHANGED <<body, cuts, apiKeys, batchModelSelect, startsLeft,
                   recentFolders, image, client, recent, auth, shared, run>>

\* createFolder returned: the loop begins with the download of the first file
FolderCreated ==
    /\ folderJob.pc = "folder"
    /\ folderJob' = NextFile(folderJob)
    /\ UNCHANGED <<body, cuts, apiKeys, batchModelSelect, startsLeft,
                   recentFolders, image, client, recent, auth, shared, run>>

\* createFolder threw: processFolder rejects before the loop
FolderFailed ==
    /\ folderJob.pc = "folder"
    /\ folderJob' = [folderJob EXCEPT !.pc = "done"]
    /\ UNCHANGED <<body, cuts, apiKeys, batchModelSelect, startsLeft,
                   recentFolders, image, client, recent, auth, shared, run>>

\* downloadFile, processImage or placeOnTemplate returned
FileStep ==
    /\ folderJob.pc \in {"download", "process", "template"}
    /\ folderJob' = [folderJob EXCEPT
                       !.pc = CASE @ = "download" -> "process"
                                [] @ = "process" -> "template"
                                [] @ = "template" -> "upload"]
    /\ UNCHANGED <<body, cuts, apiKeys, batchModelSelect, startsLeft,
                   recentFolders, image, client, recent, auth, shared, run>>

\* uploadFile returned, with the answer of a stored file or with the body of
\* an error answer: the file is counted
Uploaded ==
    /\ folderJob.pc = "upload"
    /\ \E ok \in BOOLEAN :
         folderJob' =
            NextFile([folderJob EXCEPT
                        !.processed = @ + 1,
                        !.stored = IF ok
                                   THEN Append(@, folderJob.imageFiles[folderJob.at])
                                   ELSE @])
    /\ UNCHANGED <<body, cuts, apiKeys, batchModelSelect, startsLeft,
                   recentFolders, image, client, recent, auth, shared, run>>

\* one of the four awaited calls of the iteration threw
FileFailed ==
    /\ folderJob.pc \in {"download", "process", "template", "upload"}
    /\ folderJob' = Caught(folderJob)
    /\ UNCHANGED <<body, cuts, apiKeys, batchModelSelect, startsLeft,
                   recentFolders, image, client, recent, auth, shared, run>>

NextFolder ==
    \/ processFolder
    \/ FilesListed
    \/ FolderCreated
    \/ FolderFailed
    \/ FileStep
    \/ Uploaded
    \/ FileFailed

----------------------------------------------------------------------------

Next ==
    \/ StartClick
    \/ \E i \in Runs : AuthDenied(i)
    \/ \E i \in Runs : KeyMissing(i)
    \/ \E i \in Runs : PostBatch(i)
    \/ \E i \in Runs : FetchFailed(i)
    \/ \E i \in Runs : StreamOpened(i)
    \/ \E i \in Runs : PollWake(i)
    \/ \E i \in Runs : ReadChunk(i)
    \/ \E i \in Runs : ReadDone(i)
    \/ \E i \in Runs : ReadFailed(i)
    \/ \E i \in Runs : StreamError(i)
    \/ \E i \in Runs : CancelReturn(i)
    \/ stopBatchProcessing
    \/ pauseBatchProcessing
    \/ continueBatchProcessing

Spec == Init /\ [][Next]_vars

SpecStart == InitStart /\ [][Next]_vars

SpecStream == InitStream /\ [][Next]_vars

\* one run over the body of Spec, cut at every byte
InitPause ==
    /\ InitApp
    /\ InitImageState
    /\ clicksLeft = 0
    /\ callsLeft = 0
    /\ NoAuth
    /\ NoRecent
    /\ body = BatchBody
    /\ cuts = 1..Len(body)
    /\ apiKeys = {}
    /\ batchModelSelect \in {"fal", "removebg"}
    /\ startsLeft = 1

\* one run over a body with lines that carry no record, cut at every byte
InitLines ==
    /\ InitApp
    /\ InitImageState
    /\ clicksLeft = 0
    /\ callsLeft = 0
    /\ NoAuth
    /\ NoRecent
    /\ body \in LineBodies
    /\ cuts = 1..Len(body)
    /\ apiKeys = {}
    /\ batchModelSelect \in {"fal", "removebg"}
    /\ startsLeft = 1

SpecLines == InitLines /\ [][Next]_vars

\* one run over three records of any kind, cut at the ends of lines
InitProgress ==
    /\ InitApp
    /\ InitImageState
    /\ clicksLeft = 0
    /\ callsLeft = 0
    /\ NoAuth
    /\ NoRecent
    /\ body \in ProgressBodies
    /\ cuts = LineEnds(body)
    /\ apiKeys = {}
    /\ batchModelSelect \in {"fal", "removebg"}
    /\ startsLeft = 1

SpecProgress == InitProgress /\ [][Next]_vars

\* one batch run over a body with error records, cut at the ends of lines,
\* and the folder loop of the page
InitErrors ==
    /\ InitApp
    /\ InitImageState
    /\ clicksLeft = 0
    /\ callsLeft = 0
    /\ NoAuth
    /\ NoRecent
    /\ body = ErrorsBody
    /\ cuts = LineEnds(body)
    /\ apiKeys = {}
    /\ batchModelSelect \in {"fal", "removebg"}
    /\ startsLeft = 1

NextErrors ==
    \/ Next
    \/ NextFolder

SpecErrors == InitErrors /\ [][NextErrors]_vars

\* one run; a timer of the pause wait that is due fires and an awaited
\* reader.cancel() settles
SpecPause ==
    /\ InitPause
    /\ [][Next]_vars
    /\ \A i \in Runs : WF_vars(PollWake(i)) /\ WF_vars(CancelReturn(i))

\* the handlers and steps of src/app.js alone: nothing in it sets the paused
\* flag, so the pause wait is never entered, and the continue control is
\* never displayed; the steps taken in the pause wait are left out with it
NextCode ==
    \/ StartClick
    \/ \E i \in Runs : AuthDenied(i)
    \/ \E i \in Runs : KeyMissing(i)
    \/ \E i \in Runs : PostBatch(i)
    \/ \E i \in Runs : FetchFailed(i)
    \/ \E i \in Runs : StreamOpened(i)
    \/ \E i \in Runs : ReadChunk(i)
    \/ \E i \in Runs : ReadDone(i)
    \/ \E i \in Runs : ReadFailed(i)
    \/ \E i \in Runs : CancelReturn(i)
    \/ stopBatchProcessing

\* one run of the code alone; the page does not halt while a step is
\* possible
SpecCode == InitStream /\ [][NextCode]_vars /\ WF_vars(NextCode)

----------------------------------------------------------------------------
(* Properties of the batch run *)

\* run i issues a reader.read() in this step
ReadIssued(i) == pc'[i] = "read" /\ (pc[i] # "read" \/ pos'[i] # pos[i])

\* run i hands a ProgressEvent to updateProgress in this step
EventApplied(i) == Len(loc'[i].decoded) > Len(loc[i].decoded)

\* run i terminates in this step
Terminates(i) == pc[i] # "done" /\ pc'[i] = "done"

Errors(msgs) == {m \in msgs : m.kind = "error"}

\* C1: a job stopped while it was inside a read, before any `complete`
\* record was decoded, ends with no error shown and with the 'processing
\* stopped' notice shown.
C1_StopDuringReadShowsNoError ==
    [][\A i \in Runs :
          ( /\ Terminates(i)
            /\ stopCalled[i] # <<>>
            /\ stopCalled[i][1].at = "read"
            /\ ~stopCalled[i][1].complete )
          => Errors(shown'[i]) = {} /\ StoppedNotice \in shown'[i]]_vars

\* C2: a job stopped after a file_start and before its file_complete ends
\* with no summary rendered and no recent-folder record added.
C2_StopMidFileLeavesNoSummary ==
    [][\A i \in Runs :
          (Terminates(i) /\ stopCalled[i] # <<>> /\ stopCalled[i][1].midFile)
          => summary'[i] = <<>> /\ added'[i] = 0]_vars

\* C3: while the stopped flag is set no run issues a read and no run applies
\* a ProgressEvent.
C3_NoReadNoEventOnceStopped ==
    [][batchProcessingStopped =>
          \A i \in Runs : ~ReadIssued(i) /\ ~EventApplied(i)]_vars

\* C4: no read is issued in a state where the job is paused and not stopped.
C4_NoReadWhilePaused ==
    [][\A i \in Runs :
          ReadIssued(i) => ~(batchProcessingPaused /\ ~batchProcessingStopped)]_vars

\* C4: a run waits in the pause wait, paused and not stopped, after it has
\* read part of the body.
C4_Witness ==
    \E i \in Runs :
        /\ pc[i] = "pauseWait"
        /\ batchProcessingPaused /\ ~batchProcessingStopped
        /\ pos[i] > 0 /\ pos[i] < Len(body)

\* C5: when the body ends normally and no `complete` record was decoded, the
\* run shows the missing-final-result error, renders no summary and adds no
\* recent-folder record.
C5_EndWithoutCompleteIsError ==
    [][\A i \in Runs :
          (Terminates(i) /\ exit'[i] = "eof" /\ ~HasComplete(loc[i].decoded))
          => /\ BatchError(NoFinalResult) \in shown'[i]
             /\ summary'[i] = <<>>
             /\ added'[i] = 0
             /\ recentFolders' = recentFolders]_vars

\* C5: a run that decoded records ended at the end of the body with the
\* missing-final-result error.
C5_Witness ==
    \E i \in Runs :
        /\ pc[i] = "done" /\ exit[i] = "eof"
        /\ BatchError(NoFinalResult) \in shown[i]
        /\ summary[i] = <<>>
        /\ progress.log # <<>>

\* the records of the newline-terminated `data: ` lines of a byte sequence,
\* each line decoded as a whole
RECURSIVE EventsOf(_)
EventsOf(lines) ==
    IF lines = <<>> THEN <<>>
    ELSE LET text == Utf8Step(<<>>, Head(lines), <<>>).chars
             r == JSONParse(SubSeq(text, Len(DataPrefix) + 1, Len(text)))
         IN (IF StartsWithData(text) /\ r.ok THEN <<r.data>> ELSE <<>>)
            \o EventsOf(Tail(lines))

Expected(bytes) == EventsOf(Front(Split(bytes)))

\* C6: whatever the chunks were, the records decoded from the bytes read so
\* far are those of the newline-terminated `data: ` lines among these bytes,
\* each once and in order.
C6_DecodedIndependentOfChunking ==
    \A i \in Runs : loc[i].decoded = Expected(SubSeq(body, 1, pos[i]))

\* C6: a chunk ended inside a two-byte character after a record was decoded.
C6_Witness ==
    \E i \in Runs : loc[i].pending # <<>> /\ loc[i].decoded # <<>>

\* the last `complete` record among the decoded records, <<>> for none
RECURSIVE LastComplete(_)
LastComplete(decoded) ==
    IF decoded = <<>> THEN <<>>
    ELSE IF Last(decoded).type = "complete" THEN <<Last(decoded)>>
    ELSE LastComplete(Front(decoded))

\* C7: the final result is the last `complete` record decoded; the summary
\* and the recent-folder list change only when a run renders that record.
C7_FinalResultOnlyFromComplete ==
    [][/\ \A i \in Runs :
            /\ loc'[i].final = LastComplete(loc'[i].decoded)
            /\ ((summary'[i] # summary[i] /\ summary'[i] # <<>>)
                    \/ added'[i] > added[i])
               => /\ Terminates(i)
                  /\ LastComplete(loc[i].decoded) # <<>>
                  /\ summary'[i] = LastComplete(loc[i].decoded)
                  /\ recentFolders' = AddAll(recentFolders, Results(summary'[i]))
       /\ recentFolders' # recentFolders
          => \E i \in Runs : added'[i] > added[i]]_vars

\* C7: two different `complete` records were decoded and the second one is
\* the final result.
C7_Witness ==
    \E i \in Runs :
        /\ Len(loc[i].decoded) >= 2
        /\ loc[i].decoded[1].type = "complete"
        /\ Last(loc[i].decoded).type = "complete"
        /\ loc[i].decoded[1] # Last(loc[i].decoded)
        /\ loc[i].final = <<Last(loc[i].decoded)>>

\* C8: at most one batch job is active at any time.
C8_AtMostOneActiveJob == Cardinality({i \in Runs : Active(i)}) <= 1

\* C9: a request is posted, and a reader created, only by a run whose
\* authorization check succeeded and whose model has a stored key or is one
\* of the models that need none.
C9_PostOnlyWhenAuthorizedAndKeyed ==
    \A i \in Runs :
        (posted[i] # <<>> \/ streamState[i] # "none")
        => /\ hasToken[i] = <<TRUE>>
           /\ \/ batchModelSelect \in apiKeys
              \/ batchModelSelect \in {"replicate", "fal", "fal_object_removal"}

\* C9: a run posted the stored key of a model that needs one.
C9_Witness ==
    \E i \in Runs :
        /\ posted[i] = <<[model |-> "removebg", apiKey |-> <<"removebg">>]>>
        /\ streamState[i] = "open"


----------------------------------------------------------------------------
(* Properties of the single-image pipeline *)

\* C10: the width and height handed to placeOnTemplate are the natural
\* dimensions of the file that is current at the time of the call.
C10_TemplateSizeIsNaturalOfCurrent ==
    (templateCall # <<>> /\ templateCall[1].selected # NoFile)
    => /\ templateCall[1].width = Natural[templateCall[1].selected].w
       /\ templateCall[1].height = Natural[templateCall[1].selected].h

\* one step of the page keeps the order of the remote calls
C11_Step ==
    /\ \A i \in Slots :
         /\ (proc'[i].pc = "process" /\ proc[i].pc # "process")
               => proc[i].pc = "idle"
         /\ (proc'[i].pc = "template" /\ proc[i].pc # "template")
               => /\ proc[i].pc = "process"
                  /\ templateCall' # <<>>
                  /\ templateCall'[1].image = proc[i].request[1].image
                  /\ proc'[i].file = proc[i].request[1].image
    /\ (bgCall' # <<>> /\ bgCall' # bgCall)
          => /\ processedImage # <<>>
             /\ bgCall'[1].processedImage = processedImage[1]
    /\ (processedImage' # processedImage)
          => \/ \E i \in Slots :
                  /\ proc[i].pc = "template"
                  /\ proc'[i].pc # "template"
                  /\ processedImage' = <<[of |-> proc[i].file,
                                          width |-> proc[i].width,
                                          height |-> proc[i].height]>>
             \/ \E r \in resizes \ resizes' :
                  processedImage' = <<[of |-> r.image, width |-> r.width,
                                      height |-> r.height]>>

\* C11: within one invocation of processImage the call of /api/process comes
\* first and once, placeOnTemplate is called only when it answered and with
\* its answer, and /api/place-on-background only ever carries a templated
\* artifact that a template composite that succeeded produced.
C11_RemoteStepsInSequence == [][C11_Step]_vars

\* a background request carries the composite processImage produced from the
\* answer of /api/process
C11_Witness ==
    /\ bgCall # <<>>
    /\ templateCall # <<>>
    /\ bgCall[1].processedImage.of = templateCall[1].image

\* no image is selected, no model is chosen, or the chosen model needs a key
\* and none is stored
C12_Invalid ==
    \/ currentFile = NoFile
    \/ currentModel = NoModel
    \/ /\ currentModel \notin {"fal", "fal_object_removal", "replicate"}
       /\ currentModel \notin apiKeys

\* C12: a click on the process control with no selected image, no chosen
\* model, or a model that needs a key and has none stored sends no request
\* and leaves the selected file, its source and every artifact as they were.
C12_InvalidProcessChangesNothing ==
    [][(C12_Invalid /\ (ProcessRejected \/ ProcessStart))
          => UNCHANGED <<currentFile, currentFileSource, processedImage,
                         processedImageBlob, backgroundImage, proc, resizes,
                         bgCall, downloads, uploads>>]_vars

\* a click was refused for the missing key while an image was selected
C12_Witness ==
    /\ errorEl = <<Msg("error", "no_api_key")>>
    /\ currentFile # NoFile
    /\ currentModel = "removebg"
    /\ \A i \in Slots : proc[i].pc = "idle"

\* C13: with fal, fal_object_removal or replicate chosen and no key stored
\* for it, a click on the process control with an image selected passes the
\* checks and posts the image to /api/process without an apiKey field.
C13_KeyOptionalModelPostsWithoutKey ==
    [][(/\ currentFile # NoFile
        /\ currentModel \in {"fal", "fal_object_removal", "replicate"}
        /\ currentModel \notin apiKeys
        /\ (ProcessRejected \/ ProcessStart))
          => \E i \in Slots :
                /\ proc[i].pc = "idle"
                /\ proc'[i].pc = "process"
                /\ proc'[i].request = <<[image |-> currentFile,
                                         model |-> currentModel,
                                         apiKey |-> <<>>]>>]_vars

\* /api/process is being called for a key-optional model without its key
C13_Witness ==
    \E i \in Slots :
       /\ proc[i].pc = "process"
       /\ proc[i].request[1].model \in {"fal_object_removal", "replicate"}
       /\ proc[i].request[1].model \notin apiKeys
       /\ proc[i].request[1].apiKey = <<>>

\* one step of the page, as far as changeResolution is concerned
C14_Step ==
    /\ (resizes' # resizes)
          => UNCHANGED <<proc, processedImageBlob, backgroundImage, currentFile,
                         currentFileSource, bgCall, downloads, uploads>>
    /\ \A r \in resizes' \ resizes :
          /\ processedImageBlob # <<>>
          /\ r.image = processedImageBlob[1]
          /\ [w |-> r.width, h |-> r.height] \in ResolutionSizes
          /\ processedImage' = processedImage
    /\ \A r \in resizes \ resizes' :
          \/ processedImage' = processedImage
          \/ processedImage' = <<[of |-> r.image, width |-> r.width,
                                  height |-> r.height]>>
    /\ (/\ processedImageBlob = <<>>
        /\ \E size \in ResolutionSizes : changeResolution(size.w, size.h))
          => UNCHANGED <<batchSide, errorEl, chosen, preview, loads, artifacts,
                         resultView, calls, history, currentModel,
                         processBtnDisabled, bgBtnDisabled>>

C15_LastResolutionWins ==
    (lastResolution # <<>> /\ lastResolution[1].done /\ resizes = {})
    => /\ processedImage = <<[of |-> lastResolution[1].image,
                              width |-> lastResolution[1].width,
                              height |-> lastResolution[1].height]>>
       /\ reportedSize = <<[w |-> lastResolution[1].width,
                            h |-> lastResolution[1].height]>>

\* C16: when another image becomes the selected file, the pre-template, the
\* templated and the background-placed artifacts are absent right after.
C16_SelectResetsArtifacts ==
    [][(currentFile' # currentFile /\ currentFile' # NoFile)
          => /\ processedImageBlob' = <<>>
             /\ processedImage' = <<>>
             /\ backgroundImage' = <<>>]_vars

\* C17: choosing a file of the local picker leaves no source recorded,
\* whatever source was recorded before.
C17_LocalSelectClearsSource ==
    [][handleFileSelect => currentFileSource' = <<>>]_vars

\* C18: the automatic save that follows processImage uploads the templated
\* artifact exactly when the source recorded for the file is remote storage
\* and checkAuth answered with a token, for a file of the share link and for
\* a file of the folder tree alike, and the upload goes to the folder of the
\* processed files under the base name of the original file with .png.
C18_UploadIffRemoteAndAuthorized ==
    (lastSave # <<>> /\ lastSave[1].state \in {"skipped", "uploaded"})
    => /\ (lastSave[1].state = "uploaded")
             <=> (IsYandex(lastSave[1].source) /\ lastSave[1].token)
       /\ (lastSave[1].state = "uploaded")
             => /\ Last(lastSave[1].path[1].folder) = "Processed"
                /\ lastSave[1].path[1].name =
                      PngName(lastSave[1].source[1].fileName)

\* one step of the page, as far as the automatic save is concerned
C19_Step ==
    \A i \in Slots :
       /\ (proc[i].pc = "template" /\ proc'[i].pc = "saveAuth")
             => /\ processedImage' = <<[of |-> proc[i].file,
                                        width |-> proc[i].width,
                                        height |-> proc[i].height]>>
                /\ processedImageBlob' = <<proc[i].file>>
       /\ (proc[i].pc \in {"saveAuth", "saveFolder", "saveUpload"}
           /\ proc'[i] # proc[i])
             => /\ UNCHANGED <<processedImage, processedImageBlob>>
                /\ \/ errorEl' = errorEl
                   \/ /\ errorEl' = <<Msg("success", "saved")>>
                      /\ proc[i].pc = "saveUpload"
                      /\ uploads' # {}
                /\ proc'[i].pc \in {"idle", "saveFolder", "saveUpload"}
                /\ (proc'[i].pc = "idle") => ~processBtnDisabled'

\* C19: the automatic save starts with both artifacts stored, and whatever
\* fails in it (no token, folder creation, upload) the invocation of
\* processImage leaves the artifacts as stored, shows no error and ends by
\* clearing the loading state.
C19_SaveFailureIsSwallowed == [][C19_Step]_vars

\* a save failed after checkAuth and processImage has ended: the artifacts
\* are set, no error is shown and the process control is enabled
C19_Witness ==
    /\ lastSave # <<>>
    /\ lastSave[1].state = "failed"
    /\ \A i \in Slots : proc[i].pc = "idle"
    /\ processedImage # <<>>
    /\ processedImageBlob # <<>>
    /\ errorEl = <<>>
    /\ ~processBtnDisabled

\* one step of the page, as far as placeOnBackground is concerned
C20_Step ==
    /\ (bgCall' # bgCall)
          => UNCHANGED <<processedImage, processedImageBlob>>
    /\ (bgCall = <<>> /\ bgCall' # <<>>)
          => UNCHANGED backgroundImage
    /\ (bgCall # <<>> /\ bgCall' = <<>>)
          => /\ \/ backgroundImage' = <<[on |-> bgCall[1].processedImage]>>
                \/ /\ errorEl' = <<Msg("error", "background")>>
                   /\ UNCHANGED backgroundImage
             /\ ~bgBtnDisabled'
             /\ UNCHANGED editBtnsVisible

C21_BackgroundOnlyWhenProcessed ==
    [][(bgCall = <<>> /\ bgCall' # <<>>)
          => /\ currentFile # NoFile
             /\ processedImage # <<>>
             /\ processedImage[1].of = currentFile]_vars

----------------------------------------------------------------------------
(* Properties of the remote storage client *)

\* the call that ends in this step, when it is a call of the method
EndsCall(method) ==
    /\ clientCall # <<>>
    /\ clientCall[1].method = method
    /\ clientCall' = <<>>

\* a result that reports the folder as present
FolderSuccess(outcome) ==
    /\ outcome.kind = "returned"
    /\ outcome.value.is = "object"
    /\ outcome.value.body \in {"data", "exists"}

\* one call of createFolder ends
C22_Step ==
    EndsCall("createFolder") =>
       LET folderPath == clientCall[1].path
           fetched == lastCall'[1].fetched
           outcome == lastCall'[1].outcome
       IN /\ (fetched.kind = "response" /\ fetched.status = 409)
                => outcome = Returned(Exists(folderPath))
          /\ (fetched.kind = "response" /\ ~Ok(fetched) /\ fetched.status # 409)
                => outcome.kind = "thrown"
          /\ (fetched \notin Failures)
                => /\ FolderSuccess(outcome)
                   /\ folderPath \in storage'
                   /\ folderPath \in storage => storage' = storage

\* C22: createFolder on a path whose folder an earlier call created returns
\* a success result as the first call did and leaves the storage as it is;
\* an answer with status 409 yields {success: true, path, exists: true},
\* an answer with any other status that is not OK makes the method throw.
C22_CreateFolderIsIdempotent == [][C22_Step]_vars

\* the second call on a path ended with the object for an existing folder
C22_Witness ==
    /\ lastCall # <<>>
    /\ lastCall[1].call.method = "createFolder"
    /\ lastCall[1].call.path \in storage
    /\ lastCall[1].fetched.status = 409
    /\ lastCall[1].outcome = Returned(Exists(lastCall[1].call.path))

\* C23: a call of downloadFile returns an artifact exactly when the response
\* is OK and its body holds at least one byte, and the artifact is that
\* body; with a status that is not OK, with an OK response of zero bytes and
\* with a rejected fetch it throws.
C23_DownloadFailsOnErrorOrEmpty ==
    [][EndsCall("downloadFile") =>
          LET fetched == lastCall'[1].fetched
              outcome == lastCall'[1].outcome
              good == /\ fetched.kind = "response"
                      /\ Ok(fetched)
                      /\ fetched.body # "none"
          IN /\ good => outcome = Returned(Blob(fetched.body))
             /\ ~good => outcome.kind = "thrown"]_vars

\* an OK response without a byte made downloadFile throw
C23_Witness ==
    /\ lastCall # <<>>
    /\ lastCall[1].call.method = "downloadFile"
    /\ lastCall[1].fetched = Response(200, "none")
    /\ lastCall[1].outcome = Threw("Downloaded file is empty", 0)

\* C24: whatever method of the client is called, when the fetch is rejected
\* or the proxy answers with an error status the method throws, with the
\* detail of the answer as message when the answer carries one; it never
\* returns a value for such a call.
C24_EveryMethodFailsOnFailure ==
    [][(clientCall # <<>> /\ clientCall' = <<>>
        /\ lastCall'[1].fetched \in Failures)
          => /\ lastCall'[1].outcome.kind = "thrown"
             /\ (lastCall'[1].fetched.body = "detail")
                   => lastCall'[1].outcome.text = "detail"]_vars

----------------------------------------------------------------------------
(* Properties of the list of the recent folders *)

\* C25: the list of the recent folders never holds more than 20 records,
\* whatever calls of addRecentFolder and refreshes of the list were made.
C25_AtMostTwentyRecentFolders == Len(recentFolders) <= MaxRecentFolders

\* the places of the list that hold a record of the pair of folderInfo
PlacesOf(list, folderInfo) ==
    {n \in 1..Len(list) : SameFolder(list[n], folderInfo)}

\* C26: no two records of the list have the same path and the same name,
\* and after a call of addRecentFolder the list holds exactly one record of
\* the pair it was called with, which carries the data and the time of that
\* call, also when an earlier call had added the pair.
C26_OneRecordPerFolder ==
    /\ [](\A m, n \in 1..Len(recentFolders) :
             SameFolder(recentFolders[m], recentFolders[n]) => m = n)
    /\ [][AddRecentFolder =>
             \E folderInfo \in RecentInputs :
                /\ Cardinality(PlacesOf(recentFolders', folderInfo)) = 1
                /\ \A n \in PlacesOf(recentFolders', folderInfo) :
                      recentFolders'[n] = Stamp(folderInfo, clock')]_vars

\* C27: after a call of addRecentFolder the record of the pair it was called
\* with is the first of the list, whether the pair was new or known, and
\* the times of the records never increase along the list.
C27_MostRecentFirst ==
    /\ [](\A n \in 1..Len(recentFolders) - 1 :
             recentFolders[n].timestamp >= recentFolders[n + 1].timestamp)
    /\ [][AddRecentFolder => recentFolders'[1].timestamp = clock']_vars

----------------------------------------------------------------------------
(* Properties of pause and stop *)

\* a run is reading its stream or waiting in the pause poll
StreamBeingRead == \E i \in Runs : pc[i] \in {"read", "pauseWait"}

StoppedInPause(i) == stopCalled[i] # <<>> /\ stopCalled[i][1].at = "pauseWait"

StoppedWaitTerminates == \A i \in Runs : StoppedInPause(i) ~> (pc[i] = "done")

----------------------------------------------------------------------------
(* Properties of the lines of the stream *)

\* where the line begins that holds byte n + 1 of the body
LineStart(n) ==
    CHOOSE m \in 0..n :
        /\ m = 0 \/ body[m] = NL
        /\ \A k \in (m + 1)..n : body[k] # NL

\* the records of the newline-terminated `data: ` lines with a JSON payload
\* that a read adds, when the bytes read go from `from` to `to`
NewEvents(from, to) == Expected(SubSeq(body, LineStart(from) + 1, to))

\* the progress display and the final result after the records `events`
RECURSIVE AfterEvents(_, _)
AfterEvents(events, st) ==
    IF events = <<>> THEN st
    ELSE AfterEvents(Tail(events),
                     [dom |-> updateProgress(Head(events), st.dom),
                      final |-> StoreFinal(Head(events), st.final)])

\* a line without the `data: ` prefix, or with a payload that is not JSON
Discarded(line) ==
    \/ ~StartsWithData(line)
    \/ SubSeq(line, Len(DataPrefix) + 1, Len(line)) \notin DOMAIN JsonTexts

\* C30: a read changes the progress log, the progress bar and the final
\* result exactly as the records of its conforming lines do, so a line
\* without the `data: ` prefix or with a payload that is not JSON changes
\* none of them; the run stays in the read loop, and the records of the
\* later lines are applied.
C30_BadLinesAreDiscarded ==
    [][\A i \in Runs :
          (pc[i] = "read" /\ pos'[i] > pos[i])
          => LET st == AfterEvents(NewEvents(pos[i], pos'[i]),
                                   [dom |-> progress, final |-> loc[i].final])
             IN /\ progress' = st.dom
                /\ loc'[i].final = st.final
                /\ pc'[i] \in {"read", "pauseWait", "cancel"}
                /\ exit'[i] = exit[i]
                /\ errorEl' = errorEl]_vars

\* C30: the whole of a body was read in which a `data: ` line whose payload
\* is not JSON comes before the `complete` record; that record is logged and is the
\* final result, and the file_start record before it was applied too.
C30_Witness ==
    \E i \in Runs :
        LET lines == Front(Split(body)) IN
        /\ pc[i] = "read" /\ pos[i] = Len(body)
        /\ \E n \in 1..Len(lines) : \E m \in (n + 1)..Len(lines) :
               /\ Discarded(lines[n]) /\ StartsWithData(lines[n])
               /\ ~Discarded(lines[m])
        /\ loc[i].final # <<>>
        /\ SubSeq(progress.log, Len(progress.log) - 1, Len(progress.log))
              = <<"file_start", "complete">>

----------------------------------------------------------------------------
(* Properties of processImage *)

\* C31: processImage stores the pre-template and the templated artifact in
\* one step, when /api/place-template answered, and both are then the
\* outputs of this invocation; the answer of /api/process alone and the
\* failure of either remote call leave both artifacts as they were.
C31_ArtifactsStoredTogether ==
    [][\A i \in Slots :
          /\ TemplateReturned(i)
             => /\ processedImageBlob' = <<proc[i].file>>
                /\ processedImage' # <<>>
                /\ processedImage'[1].of = proc[i].file
                /\ processedImage'[1].width = proc[i].width
                /\ processedImage'[1].height = proc[i].height
          /\ (ProcessReturned(i) \/ ProcessFailed(i))
             => UNCHANGED <<processedImage, processedImageBlob>>]_vars

\* C31: the template call of a second invocation has failed, and the page
\* still holds both artifacts of the first one.
C31_Witness ==
    /\ errorEl = <<Msg("error", "template")>>
    /\ processedImage # <<>>
    /\ processedImageBlob = <<processedImage[1].of>>
    /\ \A i \in Slots : proc[i].pc = "idle"

----------------------------------------------------------------------------
(* Properties of checkAuth *)

\* C32: a call of checkAuth whose saved token was reported authenticated
\* returns true; a call whose saved token did not validate (the check
\* endpoint answered without `authenticated`, or the check call failed) ends
\* with no token in localStorage and none in the client, and returns what
\* the proxy reported about a valid server-side token.
C32_InvalidTokenIsCleared ==
    [][(authCall # <<>> /\ authCall' = <<>>)
          => LET call == lastAuth'[1] IN
             /\ (call.saved # <<>> /\ call.check = "authenticated")
                => call.result
             /\ (call.saved # <<>> /\ call.check # "authenticated")
                => /\ localToken' = <<>>
                   /\ accessToken' = <<>>
                   /\ call.result = (call.env = "valid")]_vars

----------------------------------------------------------------------------
(* Properties of updateProgress *)

\* the record has both pairs of counters
BothCounters(data) ==
    /\ data.folder_index # 0 /\ data.total_folders # 0
    /\ data.file_index # 0 /\ data.total_files # 0

\* list s begins with list t
BeginsWith(s, t) == Len(t) <= Len(s) /\ SubSeq(s, 1, Len(t)) = t

\* C33: when a read applies one record that carries both the folder and the
\* file counters, the progress bar then shows the ratio of the folder
\* counters.
C33_FolderCountersTakePrecedence ==
    [][\A i \in Runs :
          (pc[i] = "read" /\ pos'[i] > pos[i])
          => LET events == NewEvents(pos[i], pos'[i]) IN
             (Len(events) = 1 /\ BothCounters(events[1]))
             => /\ progress'.fill
                     = (events[1].folder_index * 100) \div events[1].total_folders
                /\ progress'.text = <<events[1].folder_index,
                                      events[1].total_folders, "folders">>]_vars

\* C34: a read keeps every line of the progress log in place and adds at
\* most one line for each record it applies.
C34_LogIsAppendOnly ==
    [][\A i \in Runs :
          (pc[i] = "read" /\ pos'[i] > pos[i])
          => /\ BeginsWith(progress'.log, progress.log)
             /\ Len(progress'.log)
                  <= Len(progress.log) + Len(NewEvents(pos[i], pos'[i]))]_vars

----------------------------------------------------------------------------
(* Properties of the errors of single files and folders *)

ErrorTypes == {"file_error", "folder_error"}

\* the types of the records, in order
TypesOf(events) == [n \in 1..Len(events) |-> events[n].type]

\* the folder loop is running or has shown its count
InFolderLoop ==
    \/ folderJob.pc \in {"download", "process", "template", "upload"}
    \/ folderJob.pc = "done" /\ folderJob.shown # <<>>
                             /\ folderJob.shown[1].kind = "success"

\* C35: a read that applies only file_error and folder_error records adds
\* one log line for each, leaves the bar and the final result alone and
\* stays in the read loop.  In the folder loop of the page the files whose
\* download was requested are the first `at` image files and the count is at
\* most their number; when one of the awaited calls of a file throws, the
\* loop goes on with the next file or ends with the count shown, and at the
\* end every image file was requested.
C35_ErrorsDoNotStopTheBatch ==
    /\ [][\A i \in Runs :
            (pc[i] = "read" /\ pos'[i] > pos[i])
            => LET events == NewEvents(pos[i], pos'[i]) IN
               (\A n \in 1..Len(events) : events[n].type \in ErrorTypes)
               => /\ progress'.log = progress.log \o TypesOf(events)
                  /\ progress'.fill = progress.fill
                  /\ progress'.text = progress.text
                  /\ loc'[i].final = loc[i].final
                  /\ loc'[i].decoded = loc[i].decoded \o events
                  /\ pc'[i] \in {"read", "pauseWait", "cancel"}]_vars
    /\ [](InFolderLoop
            => /\ folderJob.requested
                    = SubSeq(folderJob.imageFiles, 1, folderJob.at)
               /\ folderJob.processed <= Len(folderJob.imageFiles)
               /\ Len(folderJob.stored) <= folderJob.processed)
    /\ [][FileFailed
            => /\ folderJob'.processed = folderJob.processed
               /\ IF folderJob.at < Len(folderJob.imageFiles)
                  THEN /\ folderJob'.pc = "download"
                       /\ folderJob'.at = folderJob.at + 1
                  ELSE /\ folderJob'.pc = "done"
                       /\ folderJob'.requested = folderJob.imageFiles
                       /\ folderJob'.shown =
                            <<[kind |-> "success",
                               processed |-> folderJob.processed,
                               total |-> Len(folderJob.imageFiles)]>>]_vars

\* C35: the batch run has decoded the `complete` record after a file_error
\* and a folder_error record, and the folder loop has ended after its first
\* file failed and its second file was stored.
C35_Witness ==
    /\ \E i \in Runs :
          /\ pc[i] = "read"
          /\ TypesOf(loc[i].decoded) = <<"file_error", "folder_error", "complete">>
          /\ progress.log = <<"begin", "file_error", "folder_error", "complete">>
    /\ folderJob.pc = "done"
    /\ folderJob.imageFiles = <<ImageA, ImageB>>
    /\ folderJob.requested = <<ImageA, ImageB>>
    /\ folderJob.stored = <<ImageB>>
    /\ folderJob.processed = 1

----------------------------------------------------------------------------
(* Properties of the end of the stream *)

\* the text after the last newline of the body
TailOf(bytes) == Last(Split(Utf8Step(<<>>, bytes, <<>>).chars))

\* C36: when the body ends, the records applied are those of its
\* newline-terminated lines; the text held back after the last newline is
\* dropped, so a `complete` record without a newline is not the final
\* result: with no terminated `complete` record the run shows the
\* missing-final-result error and renders nothing.
C36_UnterminatedTailIsDropped ==
    [][\A i \in Runs :
          (Terminates(i) /\ exit'[i] = "eof")
          => LET final == LastComplete(Expected(body)) IN
             /\ loc[i].decoded = Expected(body)
             /\ loc[i].final = final
             /\ loc[i].buffer = TailOf(body)
             /\ IF final = <<>>
                THEN /\ BatchError(NoFinalResult) \in shown'[i]
                     /\ summary'[i] = <<>>
                     /\ added'[i] = 0
                ELSE summary'[i] = final]_vars

\* C36: a body of two lines without a `complete` record, followed by a
\* `complete` record without a newline, was read to its end; the run ended
\* with the missing-final-result error and no summary.
C36_Witness ==
    \E i \in Runs :
        /\ pc[i] = "done" /\ exit[i] = "eof"
        /\ TailOf(body) = DataPrefix \o <<"c">>
        /\ Len(Split(body)) = 3
        /\ BatchError(NoFinalResult) \in shown[i]
        /\ summary[i] = <<>>
        /\ Last(progress.log) # "complete"

\* C37: the artifacts that processImage stores are those of the file that is
\* current at that moment, and its automatic save uploads the result of a
\* file under the name of that file.
C37_ResultBelongsToCurrentImage ==
    [][\A i \in Slots :
          /\ TemplateReturned(i) => proc[i].file = currentFile
          /\ SaveUploaded(i)
             => proc[i].path[1].name = PngName(FileName(proc[i].file))]_vars

\* C38: at most one invocation of processImage is in flight, and while one
\* is in flight the process control is disabled.
C38_OneProcessAtATime ==
    /\ Cardinality({i \in Slots : proc[i].pc # "idle"}) <= 1
    /\ (\E i \in Slots : proc[i].pc # "idle") => processBtnDisabled

----------------------------------------------------------------------------
(* Properties of the end of a batch run *)

\* run i ends in this step, having passed the authorization check
EndsAuthorized(i) == pc[i] # "done" /\ pc'[i] = "done" /\ exit'[i] # "denied"

\* C39: when a run that passed the authorization check ends, on whichever
\* path, the stored reader handle is null and the start control is enabled.
C39_EndedRunLeavesPageReady ==
    [][\A i \in Runs :
          EndsAuthorized(i) => batchProcessingReader' = 0 /\ ~startBtnDisabled']_vars

\* with the steps of the page fair, a run that passed the authorization check
\* ends
AuthorizedRunEnds == \A i \in Runs : Active(i) ~> (pc[i] = "done")

====
